---- MODULE Spec2Model ----
(***************************************************************************)
(* Verification model of the Kometa Web UI template processor              *)
(* (webui/backend/template_processor.py).                                  *)
(*                                                                         *)
(* Python values are tagged records:                                       *)
(*   None   [t |-> "none"]                                                 *)
(*   str    [t |-> "str",  s |-> <<"a", "b">>]   one element per character *)
(*   int    [t |-> "num",  n |-> 5]                                        *)
(*   bool   [t |-> "bool", b |-> TRUE]                                     *)
(*   list   [t |-> "list", items |-> <<v1, v2>>]                           *)
(*   dict   [t |-> "dict", kv |-> <<[k |-> key, v |-> v1], ...>>]          *)
(* A dict keeps insertion order, as Python's does; a key is the character  *)
(* sequence of a string.                                                   *)
(*                                                                         *)
(* Every function is an operator that computes what the code computes,     *)
(* and a state machine that follows the code step by step:                 *)
(*   SpecResolve   resolve_variable                                        *)
(*   SpecCond      evaluate_conditionals                                   *)
(*   SpecProcess   process_template                                        *)
(*   SpecExpand    load_templates and expand_overlay_file, which runs      *)
(*                 process_template for every template call                *)
(*   SpecLoad      load_templates, called by several threads at once       *)
(* and the scheduler (webui/backend/scheduler.py) as                       *)
(*   SpecSched     KometaScheduler under configure and stop requests       *)
(***************************************************************************)
EXTENDS Integers, Sequences, FiniteSets, TLC

\* ------------------------------------------------------------------ bounds

\* resolve_variable's default max_depth (the only value any caller passes).
MaxDepthDefault == 10

\* Cap on the passes of resolve_variable's `while True` loop that the model
\* follows; the loop itself has no cap.
MaxScans == 12

\* ------------------------------------------------------------------ values

None == [t |-> "none"]
Str(s) == [t |-> "str", s |-> s]
Num(n) == [t |-> "num", n |-> n]
Bool(b) == [t |-> "bool", b |-> b]
List(items) == [t |-> "list", items |-> items]
Dict(kv) == [t |-> "dict", kv |-> kv]
KV(k, v) == [k |-> k, v |-> v]

\* The outcome of a call that never returns (its loop does not end).
Diverge == [t |-> "diverge"]

IsStr(v) == v.t = "str"
IsDict(v) == v.t = "dict"
IsList(v) == v.t = "list"

EmptyDict == Dict(<<>>)

\* ------------------------------------------------------------ dict helpers
\* These work on the kv sequence of a dict.

\* `k in d`
Has(kv, k) == \E i \in 1..Len(kv) : kv[i].k = k

\* d[k] for a key that is present
Get(kv, k) == kv[CHOOSE i \in 1..Len(kv) : kv[i].k = k].v

\* d.get(k): None when absent
GetOrNone(kv, k) == IF Has(kv, k) THEN Get(kv, k) ELSE None

\* d.get(k, dflt)
GetOr(kv, k, dflt) == IF Has(kv, k) THEN Get(kv, k) ELSE dflt

\* d[k] = v: an existing key keeps its place, a new key goes last
Put(kv, k, v) ==
  IF Has(kv, k)
  THEN [i \in 1..Len(kv) |-> IF kv[i].k = k THEN KV(k, v) ELSE kv[i]]
  ELSE Append(kv, KV(k, v))

\* d.update(other)
RECURSIVE UpdateFrom(_, _, _)
UpdateFrom(kv, other, i) ==
  IF i > Len(other) THEN kv
  ELSE UpdateFrom(Put(kv, other[i].k, other[i].v), other, i + 1)

Update(kv, other) == UpdateFrom(kv, other, 1)

Keys(kv) == {kv[i].k : i \in 1..Len(kv)}

\* ---------------------------------------------------------- string helpers

LT == "<"
GT == ">"

\* f"<<{var_name}>>"
Placeholder(name) == <<LT, LT>> \o name \o <<GT, GT>>

\* s[i:] (1-based i)
Drop(s, i) == SubSeq(s, i, Len(s))

\* s.startswith(p) at position i
HasAt(s, i, p) ==
  /\ i + Len(p) - 1 <= Len(s)
  /\ \A j \in 1..Len(p) : s[i + j - 1] = p[j]

\* `p in s` for strings
Contains(s, p) == \E i \in 1..(Len(s) - Len(p) + 1) : HasAt(s, i, p)

\* s.endswith(p)
EndsWith(s, p) == Len(p) <= Len(s) /\ HasAt(s, Len(s) - Len(p) + 1, p)

\* s.replace(old, new): every non-overlapping occurrence, left to right
RECURSIVE ReplaceFrom(_, _, _, _)
ReplaceFrom(s, i, old, new) ==
  IF i > Len(s) THEN <<>>
  ELSE IF HasAt(s, i, old) THEN new \o ReplaceFrom(s, i + Len(old), old, new)
  ELSE <<s[i]>> \o ReplaceFrom(s, i + 1, old, new)

Replace(s, old, new) == ReplaceFrom(s, 1, old, new)

\* Length of the run of characters other than < and > that starts at i
RECURSIVE RunLen(_, _)
RunLen(s, i) ==
  IF i > Len(s) \/ s[i] \in {LT, GT} THEN 0 ELSE 1 + RunLen(s, i + 1)

\* re.finditer(r'<<([^<>]+)>>', s): the group(1) of every match, in order.
\* A match at i is "<<", a non-empty run without < or >, then ">>"; the
\* search goes on after the match, or at i + 1 when there is none at i.
RECURSIVE MatchesFrom(_, _)
MatchesFrom(s, i) ==
  IF i > Len(s) THEN <<>>
  ELSE LET n == RunLen(s, i + 2)
       IN IF /\ HasAt(s, i, <<LT, LT>>)
             /\ n >= 1
             /\ HasAt(s, i + 2 + n, <<GT, GT>>)
          THEN <<SubSeq(s, i + 2, i + 1 + n)>> \o MatchesFrom(s, i + 4 + n)
          ELSE MatchesFrom(s, i + 1)

\* A scan that takes a placeholder's name up to the first ">>", so that a
\* name may hold "<<": what r'<<(.+?)>>' would find.
RECURSIVE MatchesLazyFrom(_, _)
MatchesLazyFrom(s, i) ==
  IF i > Len(s) THEN <<>>
  ELSE IF HasAt(s, i, <<LT, LT>>)
          /\ \E j \in (i + 3)..Len(s) : HasAt(s, j, <<GT, GT>>)
       THEN LET j == CHOOSE j \in (i + 3)..Len(s) :
                       /\ HasAt(s, j, <<GT, GT>>)
                       /\ \A h \in (i + 3)..(j - 1) : ~HasAt(s, h, <<GT, GT>>)
            IN <<SubSeq(s, i + 2, j - 1)>> \o MatchesLazyFrom(s, j + 2)
       ELSE MatchesLazyFrom(s, i + 1)

MatchesLazy(s) == MatchesLazyFrom(s, 1)

Matches(s) == MatchesFrom(s, 1)

\* Decimal digits of a natural number
RECURSIVE Digits(_)
Digits(n) ==
  LET d == <<"0", "1", "2", "3", "4", "5", "6", "7", "8", "9">>
  IN IF n < 10 THEN <<d[n + 1]>> ELSE Digits(n \div 10) \o <<d[(n % 10) + 1]>>

\* str(v) and repr(v) of a Python value
RECURSIVE PyRepr(_)
RECURSIVE ReprItems(_, _)
RECURSIVE ReprPairs(_, _)
PyRepr(v) ==
  CASE v.t = "none" -> <<"N", "o", "n", "e">>
    [] v.t = "str" -> <<"'">> \o v.s \o <<"'">>
    [] v.t = "num" -> IF v.n < 0 THEN <<"-">> \o Digits(0 - v.n) ELSE Digits(v.n)
    [] v.t = "bool" -> IF v.b THEN <<"T", "r", "u", "e">>
                              ELSE <<"F", "a", "l", "s", "e">>
    [] v.t = "list" -> <<"[">> \o ReprItems(v.items, 1) \o <<"]">>
    [] v.t = "dict" -> <<"{">> \o ReprPairs(v.kv, 1) \o <<"}">>

ReprItems(items, i) ==
  IF i > Len(items) THEN <<>>
  ELSE (IF i > 1 THEN <<",", " ">> ELSE <<>>)
       \o PyRepr(items[i]) \o ReprItems(items, i + 1)

ReprPairs(kv, i) ==
  IF i > Len(kv) THEN <<>>
  ELSE (IF i > 1 THEN <<",", " ">> ELSE <<>>)
       \o <<"'">> \o kv[i].k \o <<"'", ":", " ">> \o PyRepr(kv[i].v)
       \o ReprPairs(kv, i + 1)

PyStr(v) == IF v.t = "str" THEN v.s ELSE PyRepr(v)

\* --------------------------------------------------------- resolve_variable

\* `var_name in variables`, the null check left out
ResolvableNoNullCheck(env, name) == Has(env, name)

\* `var_name in variables and variables[var_name] is not None`
Resolvable(env, name) == Has(env, name) /\ Get(env, name) # None

\* The for-match loop without the type-preserving return: every resolvable
\* placeholder is replaced by its stringified value.
RECURSIVE ForMatchesNoReturn(_, _, _, _, _)
ForMatchesNoReturn(ms, i, result, made, env) ==
  IF i > Len(ms) THEN [kind |-> IF made THEN "made" ELSE "nochange",
                       result |-> result, val |-> None]
  ELSE IF Resolvable(env, ms[i])
       THEN ForMatchesNoReturn(ms, i + 1,
                               Replace(result, Placeholder(ms[i]), PyStr(Get(env, ms[i]))),
                               TRUE, env)
       ELSE ForMatchesNoReturn(ms, i + 1, result, made, env)

\* The for-match loop with an unresolvable placeholder replaced by the empty
\* string instead of being left alone.
RECURSIVE ForMatchesBlank(_, _, _, _, _)
ForMatchesBlank(ms, i, result, made, env) ==
  IF i > Len(ms) THEN [kind |-> IF made THEN "made" ELSE "nochange",
                       result |-> result, val |-> None]
  ELSE IF Resolvable(env, ms[i])
       THEN IF result = Placeholder(ms[i])
            THEN [kind |-> "return", result |-> result, val |-> Get(env, ms[i])]
            ELSE ForMatchesBlank(ms, i + 1,
                                 Replace(result, Placeholder(ms[i]), PyStr(Get(env, ms[i]))),
                                 TRUE, env)
       ELSE ForMatchesBlank(ms, i + 1, Replace(result, Placeholder(ms[i]), <<>>),
                            made, env)

\* The `for match in matches` loop of one pass of the while loop: matches
\* were found in the string as it was when the pass began, each resolvable
\* one either ends the call (the string is exactly that placeholder) or is
\* replaced everywhere in the current string.
RECURSIVE ForMatches(_, _, _, _, _)
ForMatches(ms, i, result, made, env) ==
  IF i > Len(ms) THEN [kind |-> IF made THEN "made" ELSE "nochange",
                       result |-> result, val |-> None]
  ELSE IF Resolvable(env, ms[i])
       THEN IF result = Placeholder(ms[i])
            THEN [kind |-> "return", result |-> result, val |-> Get(env, ms[i])]
            ELSE ForMatches(ms, i + 1,
                            Replace(result, Placeholder(ms[i]), PyStr(Get(env, ms[i]))),
                            TRUE, env)
       ELSE ForMatches(ms, i + 1, result, made, env)

\* One pass of the `while True` loop. kind is "nomatch" (no placeholder:
\* break), "nochange" (made_replacement is False: break), "made" (go round
\* again with result) or "return" (return val).
ScanPass(result, env) ==
  LET ms == Matches(result)
  IN IF ms = <<>> THEN [kind |-> "nomatch", result |-> result, val |-> None]
     ELSE ForMatches(ms, 1, result, FALSE, env)

\* The `while True` loop run to its end; "diverge" when it is still
\* replacing after MaxScans passes.
RECURSIVE WhileLoop(_, _, _)
WhileLoop(result, env, fuel) ==
  LET p == ScanPass(result, env)
  IN IF p.kind = "return" THEN p
     ELSE IF p.kind # "made" THEN [kind |-> "break", result |-> result, val |-> None]
     ELSE IF fuel = 0 THEN [kind |-> "diverge", result |-> result, val |-> None]
     ELSE WhileLoop(p.result, env, fuel - 1)

\* The `for _ in range(max_depth)` loop, from iteration iter on.
RECURSIVE ForLoop(_, _, _, _)
ForLoop(result, env, iter, max_depth) ==
  IF iter >= max_depth THEN Str(result)
  ELSE LET w == WhileLoop(result, env, MaxScans)
       IN IF w.kind = "return" THEN w.val
          ELSE IF w.kind = "diverge" THEN Diverge
          ELSE IF w.result = result THEN Str(result)
          ELSE ForLoop(w.result, env, iter + 1, max_depth)

\* resolve_variable(value, variables, max_depth); env is the kv sequence of
\* `variables`. The recursive calls for a dict or a list pass no max_depth.
RECURSIVE ResolveVariable(_, _, _)
ResolveVariable(value, env, max_depth) ==
  CASE value.t = "none" -> None
    [] value.t = "str" -> ForLoop(value.s, env, 0, max_depth)
    [] value.t = "dict" ->
         Dict([i \in 1..Len(value.kv) |->
                 KV(value.kv[i].k,
                    ResolveVariable(value.kv[i].v, env, MaxDepthDefault))])
    [] value.t = "list" ->
         List([i \in 1..Len(value.items) |->
                 ResolveVariable(value.items[i], env, MaxDepthDefault)])
    [] OTHER -> value

\* resolve_variable with the default max_depth
Resolve(value, env) == ResolveVariable(value, env, MaxDepthDefault)

\* Whether a call's outcome is "never returns", at any depth of the value
RECURSIVE Diverges(_)
Diverges(v) ==
  CASE v.t = "diverge" -> TRUE
    [] v.t = "dict" -> \E i \in 1..Len(v.kv) : Diverges(v.kv[i].v)
    [] v.t = "list" -> \E i \in 1..Len(v.items) : Diverges(v.items[i])
    [] OTHER -> FALSE

\* ---------------------------------------------------- evaluate_conditionals

sValue == <<"v", "a", "l", "u", "e">>
sDefault == <<"d", "e", "f", "a", "u", "l", "t">>
sConditions == <<"c", "o", "n", "d", "i", "t", "i", "o", "n", "s">>
sExists == <<".", "e", "x", "i", "s", "t", "s">>
sNot == <<".", "n", "o", "t">>
sTrue == <<"t", "r", "u", "e">>

\* str.lower(), for the letters str(True) and str(False) hold
LowerChar(c) ==
  CASE c = "T" -> "t" [] c = "R" -> "r" [] c = "U" -> "u" [] c = "E" -> "e"
    [] c = "F" -> "f" [] c = "A" -> "a" [] c = "L" -> "l" [] c = "S" -> "s"
    [] OTHER -> c

Lower(s) == [j \in 1..Len(s) |-> LowerChar(s[j])]

\* int(v) of a bool or an int
AsInt(v) == IF v.t = "bool" THEN (IF v.b THEN 1 ELSE 0) ELSE v.n

\* a == b in Python: True == 1 and False == 0
PyEq(a, b) ==
  IF a.t \in {"num", "bool"} /\ b.t \in {"num", "bool"}
  THEN AsInt(a) = AsInt(b)
  ELSE a = b

\* `v in lst`
InList(v, lst) == \E j \in 1..Len(lst.items) : PyEq(v, lst.items[j])

\* resolve_variable on a key: the resolved string, or the key itself when
\* the result is not a string (lines 151-153, 159-161)
ResolvedName(name, env) ==
  LET r == Resolve(Str(name), env) IN IF IsStr(r) THEN r.s ELSE name

\* Lines 155-176: an `.exists` check
ExistsCheck(check_key, check_value, env) ==
  LET var_name == ResolvedName(SubSeq(check_key, 1, Len(check_key) - 7), env)
      var_value == GetOrNone(env, var_name)
      var_exists ==
        /\ var_value # None
        /\ ~( /\ IsStr(var_value)
              /\ Contains(var_value.s, <<LT, LT>>)
              /\ Contains(var_value.s, <<GT, GT>>) )
      expected == IF check_value.t = "bool" THEN check_value.b
                  ELSE Lower(PyStr(check_value)) = sTrue
  IN var_exists = expected

\* A `.not` check that compares a list as it compares any other value, by
\* its text
NotCheckNoList(check_key, check_value, env) ==
  LET var_name == SubSeq(check_key, 1, Len(check_key) - 4)
  IN IF Has(env, var_name)
     THEN PyStr(Get(env, var_name)) # PyStr(check_value)
     ELSE TRUE

\* Lines 178-189: a `.not` check
NotCheck(check_key, check_value, env) ==
  LET var_name == SubSeq(check_key, 1, Len(check_key) - 4)
  IN IF Has(env, var_name)
     THEN IF IsList(check_value)
          THEN ~InList(Get(env, var_name), check_value)
          ELSE PyStr(Get(env, var_name)) # PyStr(check_value)
     ELSE TRUE

\* Lines 191-204: the equality check, failing for a variable not in env
EqualityCheck(check_key, check_value, env) ==
  IF Has(env, check_key)
  THEN IF IsList(check_value)
       THEN InList(Get(env, check_key), check_value)
       ELSE PyStr(Get(env, check_key)) = PyStr(check_value)
  ELSE FALSE

\* Lines 150-204: whether one check of a clause passes
CheckPasses(key, check_value, env) ==
  LET check_key == ResolvedName(key, env)
  IN IF EndsWith(check_key, sExists) THEN ExistsCheck(check_key, check_value, env)
     ELSE IF EndsWith(check_key, sNot) THEN NotCheck(check_key, check_value, env)
     ELSE EqualityCheck(check_key, check_value, env)

\* Lines 144-204: the loop over a clause's checks: condition_met at its end
RECURSIVE ChecksLoop(_, _, _)
ChecksLoop(clause, i, env) ==
  IF i > Len(clause) THEN TRUE
  ELSE IF clause[i].k = sValue THEN ChecksLoop(clause, i + 1, env)
  ELSE IF ~CheckPasses(clause[i].k, clause[i].v, env) THEN FALSE
  ELSE ChecksLoop(clause, i + 1, env)

\* The clause loop that does not stop at the first clause met: the last
\* clause met gives the value.
RECURSIVE ConditionsLoopNoBreak(_, _, _, _)
ConditionsLoopNoBreak(conditions, i, env, resolved_value) ==
  IF i > Len(conditions) THEN resolved_value
  ELSE IF IsDict(conditions[i]) /\ ChecksLoop(conditions[i].kv, 1, env)
       THEN ConditionsLoopNoBreak(conditions, i + 1, env,
                                  GetOrNone(conditions[i].kv, sValue))
       ELSE ConditionsLoopNoBreak(conditions, i + 1, env, resolved_value)

\* Lines 138-208: the loop over the clauses: resolved_value at its end
RECURSIVE ConditionsLoop(_, _, _, _)
ConditionsLoop(conditions, i, env, resolved_value) ==
  IF i > Len(conditions) THEN resolved_value
  ELSE IF ~IsDict(conditions[i])
       THEN ConditionsLoop(conditions, i + 1, env, resolved_value)
       ELSE IF ChecksLoop(conditions[i].kv, 1, env)
            THEN GetOrNone(conditions[i].kv, sValue)
            ELSE ConditionsLoop(conditions, i + 1, env, resolved_value)

\* Lines 133-136: cond_def.get("conditions", []), a lone clause wrapped
ConditionsOf(cond_def) ==
  LET c == GetOr(cond_def.kv, sConditions, List(<<>>))
  IN IF IsDict(c) THEN <<c>> ELSE IF IsList(c) THEN c.items ELSE <<>>

\* Lines 132-211: the value of one conditional
EvalConditional(cond_def, env) ==
  Resolve(ConditionsLoop(ConditionsOf(cond_def), 1, env,
                         GetOrNone(cond_def.kv, sDefault)),
          env)

\* Lines 121-214: evaluate_conditionals(conditionals, variables), the loop
\* over the conditionals from the i-th on
RECURSIVE EvalFrom(_, _, _, _)
EvalFrom(conditionals, i, env, results) ==
  IF i > Len(conditionals) THEN results
  ELSE IF ~IsDict(conditionals[i].v)
       THEN EvalFrom(conditionals, i + 1, env, results)
       ELSE EvalFrom(conditionals, i + 1, env,
                     Put(results, ResolvedName(conditionals[i].k, env),
                         EvalConditional(conditionals[i].v, env)))

EvaluateConditionals(conditionals, env) == EvalFrom(conditionals, 1, env, <<>>)


\* --------------------------------------------------------- process_template

\* The fixed-point loops of process_template run `for _ in range(5)`.
FixpointPasses == 5

sKey == <<"k", "e", "y">>
sName == <<"n", "a", "m", "e">>
sOverlay == <<"o", "v", "e", "r", "l", "a", "y">>
sConditionals == <<"c", "o", "n", "d", "i", "t", "i", "o", "n", "a", "l", "s">>

\* A dict key that is not a string (a key resolved to a number or a bool)
\* is kept apart from every string by its first element.
IsStrKey(k) == k = <<>> \/ k[1] # "#nonstr"

\* The dict key a resolved key stands for
KeyOf(r) ==
  IF IsStr(r) THEN r.s
  ELSE <<"#nonstr">> \o PyRepr(IF r.t = "bool" THEN Num(AsInt(r)) ELSE r)

\* resolve_variable(key, variables) used as a dict key
ResolveKey(k, env) == IF IsStrKey(k) THEN KeyOf(Resolve(Str(k), env)) ELSE k

\* `isinstance(v, str) and "<<" in v`
HasOpen(v) == IsStr(v) /\ Contains(v.s, <<LT, LT>>)

\* a == b for two dicts: the same keys with the same values, in any order
DictEq(a, b) == {a[j] : j \in 1..Len(a)} = {b[j] : j \in 1..Len(b)}

\* template_def["default"] when it is there and a dict, else no entries
DefaultsOf(template_def) ==
  LET d == GetOrNone(template_def, sDefault) IN IF IsDict(d) THEN d.kv ELSE <<>>

\* Lines 229-233: the working variables at the start
SeedVariables(user_variables, key) == Put(user_variables, sKey, key)

\* Lines 237-243: the first default merge
RECURSIVE DefaultsFirst(_, _, _)
DefaultsFirst(defaults, i, variables) ==
  IF i > Len(defaults) THEN variables
  ELSE LET resolved_key == ResolveKey(defaults[i].k, variables)
       IN DefaultsFirst(defaults, i + 1,
                        IF Has(variables, resolved_key) THEN variables
                        ELSE Put(variables, resolved_key, defaults[i].v))

\* Lines 248-251 (and 291-294): re-resolve every value that holds "<<",
\* over the items as they were when the loop began
RECURSIVE ValuesPass(_, _, _)
ValuesPass(items, i, variables) ==
  IF i > Len(items) THEN variables
  ELSE ValuesPass(items, i + 1,
                  IF HasOpen(items[i].v)
                  THEN Put(variables, items[i].k, Resolve(items[i].v, variables))
                  ELSE variables)

\* Lines 253-261: re-key the variables. A key that holds "<<" moves to its
\* resolved key when that differs and is not copied when it does not.
RECURSIVE KeysPass(_, _, _, _)
KeysPass(items, i, variables, resolved_vars) ==
  IF i > Len(items) THEN resolved_vars
  ELSE LET vk == items[i].k
       IN IF IsStrKey(vk) /\ Contains(vk, <<LT, LT>>)
          THEN LET resolved_key == ResolveKey(vk, variables)
               IN KeysPass(items, i + 1, variables,
                           IF resolved_key # vk
                           THEN Put(resolved_vars, resolved_key, items[i].v)
                           ELSE resolved_vars)
          ELSE KeysPass(items, i + 1, variables, Put(resolved_vars, vk, items[i].v))

\* Lines 247-261: one pass of the first fixed-point loop
FirstPass(variables) ==
  LET after == ValuesPass(variables, 1, variables)
  IN KeysPass(after, 1, after, <<>>)

\* Lines 290-294: one pass of the second fixed-point loop
SecondPass(variables) == ValuesPass(variables, 1, variables)

\* Lines 246-263: the first fixed-point loop, with n passes left
RECURSIVE FirstFixpoint(_, _)
FirstFixpoint(variables, n) ==
  IF n = 0 THEN variables
  ELSE LET next == FirstPass(variables)
       IN IF DictEq(next, variables) THEN next ELSE FirstFixpoint(next, n - 1)

\* Lines 289-296: the second fixed-point loop, with n passes left
RECURSIVE SecondFixpoint(_, _)
SecondFixpoint(variables, n) ==
  IF n = 0 THEN variables
  ELSE LET next == SecondPass(variables)
       IN IF DictEq(next, variables) THEN next ELSE SecondFixpoint(next, n - 1)

\* Lines 267-269: evaluate the conditionals and merge their results
ApplyConditionals(template_def, variables) ==
  LET c == GetOrNone(template_def, sConditionals)
  IN IF Has(template_def, sConditionals) /\ IsDict(c)
     THEN Update(variables, EvaluateConditionals(c.kv, variables))
     ELSE variables

\* Lines 274-286: the second default merge
RECURSIVE DefaultsSecond(_, _, _)
DefaultsSecond(defaults, i, variables) ==
  IF i > Len(defaults) THEN variables
  ELSE LET resolved_key == ResolveKey(defaults[i].k, variables)
           dv == defaults[i].v
           resolved_value == Resolve(dv, variables)
           current == GetOrNone(variables, resolved_key)
       IN DefaultsSecond(defaults, i + 1,
            IF /\ HasOpen(dv)
               /\ resolved_value # None
               /\ \/ ~Has(variables, resolved_key)
                  \/ current = None
                  \/ HasOpen(current)
            THEN Put(variables, resolved_key, resolved_value)
            ELSE variables)

\* Lines 229-296: the variables the overlay is resolved with
FinalVariables(template_def, user_variables, key) ==
  LET defaults == DefaultsOf(template_def)
      v1 == DefaultsFirst(defaults, 1, SeedVariables(user_variables, key))
      v2 == FirstFixpoint(v1, FixpointPasses)
      v3 == ApplyConditionals(template_def, v2)
      v4 == DefaultsSecond(defaults, 1, v3)
  IN SecondFixpoint(v4, FixpointPasses)

\* `not overlay_def`: None, an empty dict, list or string, 0, False
Falsy(v) ==
  CASE v.t = "none" -> TRUE
    [] v.t = "dict" -> v.kv = <<>>
    [] v.t = "list" -> v.items = <<>>
    [] v.t = "str" -> v.s = <<>>
    [] v.t = "num" -> v.n = 0
    [] v.t = "bool" -> ~v.b

\* Lines 305-314: resolve the key and the value of every overlay field;
\* `name` is kept unless null, any other field unless null or a string
\* that holds "<<"
RECURSIVE OverlayLoop(_, _, _, _)
OverlayLoop(overlay_def, i, variables, resolved_overlay) ==
  IF i > Len(overlay_def) THEN resolved_overlay
  ELSE LET ok == overlay_def[i].k
           resolved_key == ResolveKey(ok, variables)
           resolved_value == Resolve(overlay_def[i].v, variables)
           keep == IF ok = sName THEN resolved_value # None
                   ELSE resolved_value # None /\ ~HasOpen(resolved_value)
       IN OverlayLoop(overlay_def, i + 1, variables,
                      IF keep THEN Put(resolved_overlay, resolved_key, resolved_value)
                      ELSE resolved_overlay)

\* Lines 300-305: an overlay section that is truthy and no mapping has no
\* items(): process_template raises
OverlayRaises(template_def) ==
  LET overlay_def == GetOr(template_def, sOverlay, EmptyDict)
  IN ~Falsy(overlay_def) /\ ~IsDict(overlay_def)

\* Lines 300-316: the resolved overlay, empty without an overlay section
ResolveOverlay(template_def, variables) ==
  LET overlay_def == GetOr(template_def, sOverlay, EmptyDict)
  IN IF Falsy(overlay_def) \/ ~IsDict(overlay_def) THEN <<>>
     ELSE OverlayLoop(overlay_def.kv, 1, variables, <<>>)

\* process_template(template_name, template_def, user_variables, key)
ProcessTemplate(template_def, user_variables, key) ==
  ResolveOverlay(template_def, FinalVariables(template_def, user_variables, key))


\* -------------------------------------------- preprocess_template_variables

sRating == <<"r", "a", "t", "i", "n", "g">>
sImage == <<"_", "i", "m", "a", "g", "e">>
sSep == <<" ", "/", " ">>

\* str.strip(), for blanks
RECURSIVE LStrip(_)
LStrip(s) == IF s # <<>> /\ s[1] = " " THEN LStrip(Tail(s)) ELSE s

RECURSIVE RStrip(_)
RStrip(s) ==
  IF s # <<>> /\ s[Len(s)] = " " THEN RStrip(SubSeq(s, 1, Len(s) - 1)) ELSE s

Strip(s) == LStrip(RStrip(s))

\* The place of the first occurrence of p in s (p is in s)
FirstAt(s, p) ==
  CHOOSE j \in 1..Len(s) : HasAt(s, j, p) /\ \A h \in 1..(j - 1) : ~HasAt(s, h, p)

\* The place of the last occurrence of p in s (p is in s)
LastAt(s, p) ==
  CHOOSE j \in 1..Len(s) :
    HasAt(s, j, p) /\ \A h \in (j + 1)..Len(s) : ~HasAt(s, h, p)

\* Lines 333-342 with the split of line 337 made at the last separator
\* (rsplit)
ExpandRatingAtLast(result, i) ==
  LET key == sRating \o Digits(i)
      value == Get(result, key).s
      at == LastAt(value, sSep)
  IN IF Has(result, key) /\ IsStr(Get(result, key)) /\ Contains(Get(result, key).s, sSep)
     THEN Put(Put(result, key, Str(Strip(SubSeq(value, 1, at - 1)))),
              key \o sImage, Str(Strip(Drop(value, at + 3))))
     ELSE result

\* Lines 333-342: the shorthand of rating<i>
ExpandRating(result, i) ==
  LET key == sRating \o Digits(i)
      value == Get(result, key).s
      at == FirstAt(value, sSep)
  IN IF Has(result, key) /\ IsStr(Get(result, key)) /\ Contains(Get(result, key).s, sSep)
     THEN Put(Put(result, key, Str(Strip(SubSeq(value, 1, at - 1)))),
              key \o sImage, Str(Strip(Drop(value, at + 3))))
     ELSE result

\* Lines 329-346: preprocess_template_variables(variables)
PreprocessTemplateVariables(variables) ==
  ExpandRating(ExpandRating(ExpandRating(variables, 1), 2), 3)

\* ------------------------------------------- _extract_external_template_vars

sTemplateVariables ==
  <<"t", "e", "m", "p", "l", "a", "t", "e", "_", "v", "a", "r", "i", "a", "b", "l", "e", "s">>

\* Lines 376-378: the entries of a `default` block, none overwriting
RECURSIVE SetDefaults(_, _, _)
SetDefaults(defaults, i, variables) ==
  IF i > Len(defaults) THEN variables
  ELSE SetDefaults(defaults, i + 1,
                   IF Has(variables, defaults[i].k) THEN variables
                   ELSE Put(variables, defaults[i].k, defaults[i].v))

\* Lines 373-384: the loop over template_variables
RECURSIVE ExtractLoop(_, _, _, _)
ExtractLoop(tmpl_vars, i, variables, conditionals) ==
  IF i > Len(tmpl_vars) THEN [variables |-> variables, conditionals |-> conditionals]
  ELSE LET tk == tmpl_vars[i].k
           tv == tmpl_vars[i].v
       IN IF tk = sDefault /\ IsDict(tv)
          THEN ExtractLoop(tmpl_vars, i + 1, SetDefaults(tv.kv, 1, variables), conditionals)
          ELSE IF tk = sConditionals /\ IsDict(tv)
          THEN ExtractLoop(tmpl_vars, i + 1, variables, Update(conditionals, tv.kv))
          ELSE ExtractLoop(tmpl_vars, i + 1, Put(variables, tk, tv), conditionals)

\* Lines 363-386: _extract_external_template_vars(ext_tmpl)
ExtractExternalTemplateVars(ext_tmpl) ==
  LET tmpl_vars == GetOrNone(ext_tmpl, sTemplateVariables)
  IN IF Has(ext_tmpl, sTemplateVariables) /\ IsDict(tmpl_vars)
     THEN ExtractLoop(tmpl_vars.kv, 1, <<>>, <<>>)
     ELSE [variables |-> <<>>, conditionals |-> <<>>]

\* ------------------------------------------------------------ load_templates

sTemplates == <<"t", "e", "m", "p", "l", "a", "t", "e", "s">>
sTemplatesYml == sTemplates \o <<".", "y", "m", "l">>

\* A file is missing, unreadable or unparsable ("bad": open or yaml.load
\* raises), or parses to a value.
Missing == [st |-> "missing"]
Bad == [st |-> "bad"]
Parsed(data) == [st |-> "ok", data |-> data]

\* Lines 35-40: the file a source names, under the defaults directory
PathOf(source) == IF source = sTemplates THEN sTemplatesYml ELSE source

\* The file at a path of the file system fs (a kv sequence path -> file)
FileAt(fs, path) == IF Has(fs, path) THEN Get(fs, path) ELSE Missing

\* Lines 31-53 with a failure remembered: a file that is missing or cannot
\* be read is cached as the empty mapping
LoadTemplatesCacheFailure(cache, fs, template_source) ==
  IF ~IsStr(template_source)
  THEN [exc |-> TRUE, ret |-> None, cache |-> cache]
  ELSE LET source == template_source.s
           file == FileAt(fs, PathOf(source))
       IN IF Has(cache, source)
          THEN [exc |-> FALSE, ret |-> Get(cache, source), cache |-> cache]
          ELSE IF file.st # "ok" \/ Falsy(file.data) \/ ~IsDict(file.data)
          THEN [exc |-> FALSE, ret |-> EmptyDict, cache |-> Put(cache, source, EmptyDict)]
          ELSE LET templates == GetOr(file.data.kv, sTemplates, EmptyDict)
               IN [exc |-> FALSE, ret |-> templates,
                   cache |-> Put(cache, source, templates)]

\* Lines 31-53: load_templates(template_source), given the cache and the
\* files: whether it raises, what it returns and the cache it leaves. A
\* source that is not a string raises before the try (an unhashable one at
\* the cache lookup, any other at Path()).
LoadTemplates(cache, fs, template_source) ==
  IF ~IsStr(template_source)
  THEN [exc |-> TRUE, ret |-> None, cache |-> cache]
  ELSE LET source == template_source.s
           file == FileAt(fs, PathOf(source))
       IN IF Has(cache, source)
          THEN [exc |-> FALSE, ret |-> Get(cache, source), cache |-> cache]
          ELSE IF file.st # "ok"
          THEN [exc |-> FALSE, ret |-> EmptyDict, cache |-> cache]
          ELSE IF Falsy(file.data)
          THEN [exc |-> FALSE, ret |-> EmptyDict, cache |-> Put(cache, source, EmptyDict)]
          ELSE IF ~IsDict(file.data)
          THEN [exc |-> FALSE, ret |-> EmptyDict, cache |-> cache]
          ELSE LET templates == GetOr(file.data.kv, sTemplates, EmptyDict)
               IN [exc |-> FALSE, ret |-> templates,
                   cache |-> Put(cache, source, templates)]


\* ------------------------------------------------------- expand_overlay_file

sExternalTemplates ==
  <<"e", "x", "t", "e", "r", "n", "a", "l", "_">> \o sTemplates
sOverlays == sOverlay \o <<"s">>
sTemplate == <<"t", "e", "m", "p", "l", "a", "t", "e">>
sVariables == <<"v", "a", "r", "i", "a", "b", "l", "e", "s">>
sStandard == <<"s", "t", "a", "n", "d", "a", "r", "d">>
sOriginalName ==
  <<"_", "o", "r", "i", "g", "i", "n", "a", "l", "_">> \o sName
sUnderTemplate == <<"_">> \o sTemplate
sDirect == <<"_", "d", "i", "r", "e", "c", "t">>

\* overlay_name.split("-")[-1]: the text after the last "-", the whole name
\* when it has none
RECURSIVE LastSegment(_)
LastSegment(name) ==
  IF \E j \in 1..Len(name) : name[j] = "-"
  THEN LastSegment(Drop(name, 1 + CHOOSE j \in 1..Len(name) : name[j] = "-"))
  ELSE name

\* Lines 418-430: what the `external_templates` section gives: the loaded
\* templates, the user variables with the external ones added as defaults,
\* the external conditionals, and the cache after the load
LoadExternal(data, user_vars, cache, fs) ==
  LET ext_tmpl == GetOrNone(data, sExternalTemplates)
  IN IF Has(data, sExternalTemplates) /\ IsDict(ext_tmpl)
     THEN LET loaded == LoadTemplates(cache, fs,
                                      GetOr(ext_tmpl.kv, sDefault, Str(sTemplates)))
              ext == ExtractExternalTemplateVars(ext_tmpl.kv)
          IN [exc |-> loaded.exc,
              templates |-> loaded.ret,
              cache |-> loaded.cache,
              user_vars |-> SetDefaults(ext.variables, 1, user_vars),
              conditionals |-> ext.conditionals]
     ELSE [exc |-> FALSE, templates |-> EmptyDict, cache |-> cache,
           user_vars |-> user_vars, conditionals |-> <<>>]

\* Lines 450-464: the variables of an overlay entry
OverlayVars(user_vars, overlay_def, overlay_name) ==
  LET vs == GetOrNone(overlay_def, sVariables)
      tvs == GetOrNone(overlay_def, sTemplateVariables)
      v1 == IF IsDict(vs) THEN Update(user_vars, vs.kv) ELSE user_vars
      v2 == IF IsDict(tvs) THEN Update(v1, tvs.kv) ELSE v1
  IN IF Has(v2, sKey) THEN v2 ELSE Put(v2, sKey, Str(LastSegment(overlay_name)))

\* Line 447: the template calls of an entry
TemplateCalls(overlay_def) ==
  LET template_call == Get(overlay_def, sTemplate)
  IN IF IsList(template_call) THEN template_call.items ELSE <<template_call>>

\* Lines 469-476: a call names a template when it is a dict or a string
IsCall(tmpl_call) == IsDict(tmpl_call) \/ IsStr(tmpl_call)

CallName(tmpl_call) ==
  IF IsDict(tmpl_call) THEN GetOr(tmpl_call.kv, sName, Str(sStandard)) ELSE tmpl_call

CallVars(tmpl_call) ==
  IF IsDict(tmpl_call) THEN SelectSeq(tmpl_call.kv, LAMBDA e : e.k # sName) ELSE <<>>

\* Line 478: a template name that is a list or a mapping cannot be looked
\* up in all_templates (unhashable): the lookup raises
Unhashable(v) == IsList(v) \/ IsDict(v)

\* Lines 481-494 with the merge of line 491 turned round: the external
\* conditionals over the template's own
EffectiveTemplateExternalOver(template_value, external_conditionals) ==
  LET template_def == IF IsList(template_value) /\ template_value.items # <<>>
                      THEN template_value.items[1] ELSE template_value
      effective == IF IsDict(template_def) THEN template_def.kv ELSE <<>>
      own == GetOrNone(effective, sConditionals)
  IN IF external_conditionals = <<>>
     THEN [exc |-> FALSE, def |-> effective]
     ELSE IF ~Has(effective, sConditionals) \/ own \in {List(<<>>), Str(<<>>)}
     THEN [exc |-> FALSE,
           def |-> Put(effective, sConditionals, Dict(external_conditionals))]
     ELSE IF ~IsDict(own)
     THEN [exc |-> TRUE, def |-> effective]
     ELSE [exc |-> FALSE,
           def |-> Put(effective, sConditionals,
                       Dict(Update(own.kv, external_conditionals)))]

\* Lines 481-494: the template a call is processed with. exc: the
\* template's `conditionals` is nothing dict.update() takes (a mapping, or
\* an empty list or string, which adds nothing).
EffectiveTemplate(template_value, external_conditionals) ==
  LET template_def == IF IsList(template_value) /\ template_value.items # <<>>
                      THEN template_value.items[1] ELSE template_value
      effective == IF IsDict(template_def) THEN template_def.kv ELSE <<>>
      own == GetOrNone(effective, sConditionals)
  IN IF external_conditionals = <<>>
     THEN [exc |-> FALSE, def |-> effective]
     ELSE IF ~Has(effective, sConditionals)
     THEN [exc |-> FALSE,
           def |-> Put(effective, sConditionals, Dict(external_conditionals))]
     ELSE IF own \in {List(<<>>), Str(<<>>)}
     THEN [exc |-> FALSE,
           def |-> Put(effective, sConditionals, Dict(external_conditionals))]
     ELSE IF ~IsDict(own)
     THEN [exc |-> TRUE, def |-> effective]
     ELSE [exc |-> FALSE,
           def |-> Put(effective, sConditionals,
                       Dict(Update(external_conditionals, own.kv)))]

\* Lines 501-505 with the assignment of line 505 kept from overwriting: the
\* first call to set a key keeps it
RECURSIVE MergeResolvedKeepFirst(_, _, _)
MergeResolvedKeepFirst(resolved, i, merged_overlay) ==
  IF i > Len(resolved) THEN merged_overlay
  ELSE MergeResolvedKeepFirst(resolved, i + 1,
                     IF \/ (resolved[i].k # <<>> /\ resolved[i].k[1] = "_")
                        \/ resolved[i].v = None
                        \/ Has(merged_overlay, resolved[i].k)
                     THEN merged_overlay
                     ELSE Put(merged_overlay, resolved[i].k, resolved[i].v))

\* Lines 501-505: merge a call's result into the entry's. exc: a result
\* key that is no string has no startswith.
RECURSIVE MergeResolved(_, _, _)
MergeResolved(resolved, i, merged_overlay) ==
  IF i > Len(resolved) THEN merged_overlay
  ELSE MergeResolved(resolved, i + 1,
                     IF \/ (resolved[i].k # <<>> /\ resolved[i].k[1] = "_")
                        \/ resolved[i].v = None
                     THEN merged_overlay
                     ELSE Put(merged_overlay, resolved[i].k, resolved[i].v))

\* Lines 468-505: one template call of an entry. kind is "skip" (no call,
\* or no such template), "raise" or "ok" (with the call's resolved overlay
\* and the variables it was resolved with).
CallStep(tmpl_call, all_templates, external_conditionals, overlay_vars) ==
  LET tmpl_name == KeyOf(CallName(tmpl_call))
      effective == EffectiveTemplate(Get(all_templates, tmpl_name),
                                     external_conditionals)
      combined_vars == Update(overlay_vars, CallVars(tmpl_call))
      key == GetOr(combined_vars, sKey, Str(<<>>))
      resolved == ProcessTemplate(effective.def, combined_vars, key)
  IN IF ~IsCall(tmpl_call)
     THEN [kind |-> "skip", resolved |-> <<>>, variables |-> <<>>]
     ELSE IF Unhashable(CallName(tmpl_call))
     THEN [kind |-> "raise", resolved |-> <<>>, variables |-> <<>>]
     ELSE IF ~Has(all_templates, tmpl_name)
     THEN [kind |-> "skip", resolved |-> <<>>, variables |-> <<>>]
     ELSE IF \/ effective.exc
             \/ OverlayRaises(effective.def)
             \/ \E j \in 1..Len(resolved) : ~IsStrKey(resolved[j].k)
     THEN [kind |-> "raise", resolved |-> <<>>, variables |-> <<>>]
     ELSE [kind |-> "ok", resolved |-> resolved,
           variables |-> FinalVariables(effective.def, combined_vars, key)]

\* Lines 509-512: the items ", ".join() is given; one that is no string
\* makes it raise
LabelItem(tmpl_call) ==
  IF IsDict(tmpl_call) THEN GetOr(tmpl_call.kv, sName, tmpl_call)
  ELSE Str(PyStr(tmpl_call))

RECURSIVE JoinLabels(_, _)
JoinLabels(template_calls, i) ==
  IF i > Len(template_calls) THEN <<>>
  ELSE (IF i > 1 THEN <<",", " ">> ELSE <<>>)
       \o LabelItem(template_calls[i]).s \o JoinLabels(template_calls, i + 1)

\* Lines 507-513: the element of a template entry; exc when the join raises
TemplateElement(merged_overlay, overlay_name, template_calls) ==
  IF \E j \in 1..Len(template_calls) : ~IsStr(LabelItem(template_calls[j]))
  THEN [exc |-> TRUE, overlay |-> <<>>]
  ELSE [exc |-> FALSE,
        overlay |-> Put(Put(merged_overlay, sOriginalName, Str(overlay_name)),
                        sUnderTemplate, Str(JoinLabels(template_calls, 1)))]

\* Lines 522-526 with the filter of process_template (line 311) in place of
\* the one of line 525: a value left with a placeholder is dropped too
RECURSIVE DirectLoopDropOpen(_, _, _, _)
DirectLoopDropOpen(overlay_config, i, user_vars, resolved) ==
  IF i > Len(overlay_config) THEN resolved
  ELSE LET resolved_value == Resolve(overlay_config[i].v, user_vars)
       IN DirectLoopDropOpen(overlay_config, i + 1, user_vars,
                     IF resolved_value # None /\ ~HasOpen(resolved_value)
                     THEN Put(resolved, overlay_config[i].k, resolved_value)
                     ELSE resolved)

\* Lines 522-526: resolve the values of a direct entry, dropping nulls
RECURSIVE DirectLoop(_, _, _, _)
DirectLoop(overlay_config, i, user_vars, resolved) ==
  IF i > Len(overlay_config) THEN resolved
  ELSE LET resolved_value == Resolve(overlay_config[i].v, user_vars)
       IN DirectLoop(overlay_config, i + 1, user_vars,
                     IF resolved_value # None
                     THEN Put(resolved, overlay_config[i].k, resolved_value)
                     ELSE resolved)

\* Lines 519-530: the element of a direct entry
DirectElement(overlay_config, user_vars, overlay_name) ==
  Put(Put(DirectLoop(overlay_config, 1, user_vars, <<>>),
          sOriginalName, Str(overlay_name)),
      sDirect, Bool(TRUE))


\* Line 436 with the two sets swapped: the external templates over the
\* local ones
AllTemplatesExternalOver(external_templates, local_templates) ==
  Update(local_templates, external_templates)

\* Line 436: {**external_templates, **local_templates}
AllTemplates(external_templates, local_templates) ==
  Update(external_templates, local_templates)

\* Lines 397-439: expand_overlay_file up to the loop over the entries.
\* kind is "return" (the empty list is returned), "raise" (an exception
\* leaves the call) or "go" (the loop begins).
ExpandSetup(file, user_template_variables, cache, fs) ==
  LET stop(kind, c) ==
        [kind |-> kind, user_vars |-> <<>>, templates |-> <<>>,
         conditionals |-> <<>>, overlays |-> <<>>, cache |-> c]
  IN IF file.st # "ok" \/ Falsy(file.data) THEN stop("return", cache)
     ELSE IF ~IsDict(file.data) THEN stop("raise", cache)
     ELSE LET data == file.data.kv
              ext == LoadExternal(data,
                                  PreprocessTemplateVariables(user_template_variables),
                                  cache, fs)
              local_templates == GetOr(data, sTemplates, EmptyDict)
              overlays_section == GetOr(data, sOverlays, EmptyDict)
          IN IF ext.exc THEN stop("raise", cache)
             ELSE IF ~IsDict(ext.templates) \/ ~IsDict(local_templates)
                     \/ ~IsDict(overlays_section)
             THEN stop("raise", ext.cache)
             ELSE [kind |-> "go",
                   user_vars |-> ext.user_vars,
                   templates |-> AllTemplates(ext.templates.kv, local_templates.kv),
                   conditionals |-> ext.conditionals,
                   overlays |-> overlays_section.kv,
                   cache |-> ext.cache]

\* Lines 513 and 530 with the element put at the head of the list
PrependOverlay(expanded_overlays, overlay) == <<overlay>> \o expanded_overlays

\* Lines 513 and 530: expanded_overlays.append(...)
AppendOverlay(expanded_overlays, overlay) == Append(expanded_overlays, overlay)

\* What an entry is: "template", "direct" (an `overlay` mapping and no
\* `template`) or "skip"
EntryKind(overlay_def) ==
  IF ~IsDict(overlay_def) THEN "skip"
  ELSE IF Has(overlay_def.kv, sTemplate) THEN "template"
  ELSE IF Has(overlay_def.kv, sOverlay) /\ IsDict(Get(overlay_def.kv, sOverlay))
  THEN "direct"
  ELSE "skip"

\* Lines 468-505: the calls of a template entry from the c-th on
RECURSIVE CallsLoop(_, _, _, _, _, _)
CallsLoop(calls, c, templates, conditionals, overlay_vars, merged_overlay) ==
  IF c > Len(calls) THEN [exc |-> FALSE, merged |-> merged_overlay]
  ELSE LET step == CallStep(calls[c], templates, conditionals, overlay_vars)
       IN IF step.kind = "raise" THEN [exc |-> TRUE, merged |-> merged_overlay]
          ELSE CallsLoop(calls, c + 1, templates, conditionals, overlay_vars,
                         MergeResolved(step.resolved, 1, merged_overlay))

\* Lines 440-530: the entries from the i-th on
RECURSIVE EntriesLoop(_, _, _, _, _, _)
EntriesLoop(overlays, i, user_vars, templates, conditionals, expanded) ==
  IF i > Len(overlays) THEN [exc |-> FALSE, ret |-> expanded]
  ELSE LET overlay_name == overlays[i].k
           overlay_def == overlays[i].v
           kind == EntryKind(overlay_def)
       IN IF kind = "template"
          THEN LET calls == TemplateCalls(overlay_def.kv)
                   done == CallsLoop(calls, 1, templates, conditionals,
                                     OverlayVars(user_vars, overlay_def.kv, overlay_name),
                                     <<>>)
                   element == TemplateElement(done.merged, overlay_name, calls)
               IN IF done.exc \/ (done.merged # <<>> /\ element.exc)
                  THEN [exc |-> TRUE, ret |-> expanded]
                  ELSE EntriesLoop(overlays, i + 1, user_vars, templates, conditionals,
                                   IF done.merged # <<>>
                                   THEN AppendOverlay(expanded, element.overlay)
                                   ELSE expanded)
          ELSE EntriesLoop(overlays, i + 1, user_vars, templates, conditionals,
                           IF kind = "direct"
                           THEN AppendOverlay(expanded,
                                       DirectElement(Get(overlay_def.kv, sOverlay).kv,
                                                     user_vars, overlay_name))
                           ELSE expanded)

\* expand_overlay_file(file_path, user_template_variables): whether it
\* raises, the list it returns and the template cache it leaves
ExpandOverlayFile(file, user_template_variables, cache, fs) ==
  LET setup == ExpandSetup(file, user_template_variables, cache, fs)
      run == EntriesLoop(setup.overlays, 1, setup.user_vars, setup.templates,
                         setup.conditionals, <<>>)
  IN IF setup.kind = "go"
     THEN [exc |-> run.exc, ret |-> IF run.exc THEN <<>> ELSE run.ret,
           cache |-> setup.cache]
     ELSE [exc |-> setup.kind = "raise", ret |-> <<>>, cache |-> setup.cache]


\* ============================================================ scheduler
\* webui/backend/scheduler.py: KometaScheduler and the `schedule` module's
\* job list it drives.

UpperLetters == <<"A", "B", "C", "D", "E", "F", "G", "H", "I", "J", "K", "L", "M", "N", "O", "P", "Q", "R", "S", "T", "U", "V", "W", "X", "Y", "Z">>
LowerLetters == <<"a", "b", "c", "d", "e", "f", "g", "h", "i", "j", "k", "l", "m", "n", "o", "p", "q", "r", "s", "t", "u", "v", "w", "x", "y", "z">>

\* str.lower(), one character
LowerLetter(c) ==
  IF \E i \in 1..Len(UpperLetters) : UpperLetters[i] = c
  THEN LowerLetters[CHOOSE i \in 1..Len(UpperLetters) : UpperLetters[i] = c]
  ELSE c

LowerCase(s) == [j \in 1..Len(s) |-> LowerLetter(s[j])]

\* \d and \w of the regular expressions
IsDigitChar(c) == c \in {"0", "1", "2", "3", "4", "5", "6", "7", "8", "9"}
IsWordChar(c) ==
  \/ IsDigitChar(c) \/ c = "_"
  \/ \E i \in 1..Len(UpperLetters) : c \in {UpperLetters[i], LowerLetters[i]}

\* The last place of the run of word (or digit) characters of s that
\* begins at place i; i - 1 when there is none
RECURSIVE RunEnd(_, _, _)
RunEnd(s, i, digits) ==
  IF i <= Len(s) /\ (IF digits THEN IsDigitChar(s[i]) ELSE IsWordChar(s[i]))
  THEN RunEnd(s, i + 1, digits)
  ELSE i - 1

\* re.match(prefix + r"(\w+)\)", s), or with \d+: the group, <<>> when
\* there is no match (s begins with prefix)
GroupOf(s, prefix, digits) ==
  LET from == Len(prefix) + 1
      to == RunEnd(s, from, digits)
  IN IF to >= from /\ to < Len(s) /\ s[to + 1] = ")"
     THEN SubSeq(s, from, to)
     ELSE <<>>

\* int() of a run of digits
RECURSIVE IntOf(_)
IntOf(digits) ==
  IF digits = <<>> THEN 0
  ELSE 10 * IntOf(SubSeq(digits, 1, Len(digits) - 1))
       + (CHOOSE d \in 0..9 : Digits(d) = <<digits[Len(digits)]>>)

sHourly == <<"h", "o", "u", "r", "l", "y">>
sDaily == <<"d", "a", "i", "l", "y">>
sWeeklyOpen == <<"w", "e", "e", "k", "l", "y", "(">>
sMonthlyOpen == <<"m", "o", "n", "t", "h", "l", "y", "(">>
sHourlyOpen == <<"h", "o", "u", "r", "l", "y", "(">>

\* Lines 97-105: the keys of day_map
DayNames ==
  { <<"m", "o", "n", "d", "a", "y">>,
    <<"t", "u", "e", "s", "d", "a", "y">>,
    <<"w", "e", "d", "n", "e", "s", "d", "a", "y">>,
    <<"t", "h", "u", "r", "s", "d", "a", "y">>,
    <<"f", "r", "i", "d", "a", "y">>,
    <<"s", "a", "t", "u", "r", "d", "a", "y">>,
    <<"s", "u", "n", "d", "a", "y">> }

\* A job of the `schedule` module. of: the expression it was registered
\* for; monthly: it triggers only on the day of the month (the lambda of
\* line 117); due: its time has come and run_pending has not yet run it
Job(expression, monthly) == [of |-> expression, monthly |-> monthly, due |-> FALSE]

\* A datetime computed for an expression's schedule
NextRunOf(expression) == [t |-> "time", of |-> expression]

\* The last hour Job.at() accepts for a daily job
LastHour == 23

\* Lines 77-136: _setup_schedule(expression), given self._next_run and the
\* number of days of the month _calculate_next_monthly lands in. The job
\* list after it (it begins by clearing it) and self._next_run after it.
\* An exception (Job.at() on an hour past 23, datetime.replace() on a day
\* the month has not) is caught at line 135, leaving what was done so far.
SetupSchedule(schedule_expression, next_run, month_days) ==
  LET expression == Strip(LowerCase(schedule_expression))
      registered(monthly) == <<Job(expression, monthly)>>
      none == [jobs |-> <<>>, next_run |-> next_run]
      set == [jobs |-> registered(FALSE), next_run |-> NextRunOf(expression)]
  IN IF expression = sHourly THEN set
     ELSE IF expression = sDaily THEN set
     ELSE IF HasAt(expression, 1, sWeeklyOpen)
     THEN IF GroupOf(expression, sWeeklyOpen, FALSE) \in DayNames THEN set ELSE none
     ELSE IF HasAt(expression, 1, sMonthlyOpen)
     THEN LET group == GroupOf(expression, sMonthlyOpen, TRUE)
              day == IntOf(group)
          IN IF group = <<>> THEN none
             ELSE IF day < 1 \/ day > month_days
             THEN [jobs |-> registered(TRUE), next_run |-> next_run]
             ELSE [jobs |-> registered(TRUE), next_run |-> NextRunOf(expression)]
     ELSE IF HasAt(expression, 1, sHourlyOpen)
     THEN LET group == GroupOf(expression, sHourlyOpen, TRUE)
          IN IF group = <<>> \/ IntOf(group) > LastHour THEN none ELSE set
     ELSE none

\* Lines 40-49: get_status(), given the fields
GetStatus(enabled, schedule_expression, dry_run_only, next_run, last_run, run_count) ==
  [enabled |-> enabled, schedule |-> schedule_expression,
   dry_run_only |-> dry_run_only, next_run |-> next_run,
   last_run |-> last_run, run_count |-> run_count]

\* ------------------------------------------------- inputs of the resolver

\* Character sequences used as variable names and literal text
nA == <<"a">>
nB == <<"b">>
nI == <<"i">>
nK == <<"k">>
nX == <<"x">>
sOne == <<"1">>
sArial == <<"A", "r", "i", "a", "l">>

\* "<<A<<i>>B>>": a placeholder whose identifier holds placeholder <<i>>
Nested(A, i, B) == Placeholder(A \o Placeholder(i) \o B)

\* The fragments around the inner placeholder of a nested placeholder
Frags == {<<>>, <<"r">>, <<"f">>}

\* Values handed to resolve_variable
RvValues ==
  { None, Num(5), Bool(TRUE),
    Str(<<"p">>),
    Str(<<LT, LT, GT, GT>>),
    Str(Placeholder(nA)),
    Str(Placeholder(nX)),
    Str(<<LT>> \o Placeholder(nA)),
    Str(<<"p", " ">> \o Placeholder(nA)),
    Str(Placeholder(nA) \o Placeholder(nB)),
    Str(Placeholder(nA) \o Placeholder(nA)),
    Str(<<"p">> \o Placeholder(nA) \o <<" ">> \o Placeholder(nX)),
    Str(Placeholder(nX) \o Placeholder(nA)),
    Str(Nested(<<>>, nI, <<>>)),
    Str(Nested(<<"r">>, nI, <<>>)),
    Str(Nested(<<>>, nI, <<"f">>)),
    Str(Nested(<<"r">>, nI, <<"f">>)),
    Str(Nested(<<"r">>, nX, <<"f">>)),
    List(<<Str(Placeholder(nA)), Num(5), Str(<<"p">> \o Placeholder(nB))>>),
    Dict(<<KV(Placeholder(nA), Str(<<"p">> \o Placeholder(nA))), KV(nK, None)>>) }

\* Variable environments (the kv sequence of `variables`)
RvEnvs ==
  { <<>>,
    <<KV(nA, Str(sOne))>>,
    <<KV(nA, Num(5)), KV(nB, Bool(FALSE))>>,
    <<KV(nA, None), KV(nB, Str(sOne))>>,
    <<KV(nA, Str(<<>>)), KV(nB, Num(7))>>,
    <<KV(nA, List(<<Num(1), Str(<<"s">>)>>))>>,
    <<KV(nA, Dict(<<KV(nK, Str(Placeholder(nB)))>>)), KV(nB, Str(sOne))>>,
    \* a chain, and a chain that ends in a variable set to null
    <<KV(nA, Str(Placeholder(nB))), KV(nB, Str(sOne))>>,
    <<KV(nA, Str(Placeholder(nB))), KV(nB, None)>>,
    <<KV(nA, Str(<<"q">> \o Placeholder(nB))), KV(nB, Num(2))>>,
    \* placeholder cycles
    <<KV(nA, Str(Placeholder(nA)))>>,
    <<KV(nA, Str(Placeholder(nB))), KV(nB, Str(Placeholder(nA)))>>,
    <<KV(nA, Str(<<"p">> \o Placeholder(nA)))>>,
    \* environments for nested placeholders
    <<KV(nI, Str(sOne)), KV(sOne, Str(<<"o">>)), KV(<<"r", "1">>, Num(5)),
      KV(<<"1", "f">>, Bool(TRUE)), KV(<<"r", "1", "f">>, Str(sArial))>>,
    <<KV(nI, Str(nA)), KV(nA, Str(Placeholder(nB))), KV(nB, Str(sOne)),
      KV(<<"r", "a">>, List(<<Num(1)>>)), KV(<<"r", "a", "f">>, None)>>,
    <<KV(nI, Str(<<>>)), KV(<<"r">>, Str(<<"R">>)), KV(<<"f">>, Num(2)),
      KV(<<"r", "f">>, Str(Placeholder(nI)))>>,
    <<KV(nI, Num(1)), KV(<<"r", "1", "f">>, Str(sArial))>> }

\* ------------------------------------------------------------------ state

VARIABLES
  \* resolve_variable
  rv_value,    \* the value passed in
  rv_env,      \* the variables passed in
  rv_pc,       \* "call", "for", "while", "check", "done", "hang"
  rv_result,   \* the local `result`
  rv_prev,     \* the local `prev_result`
  rv_iter,     \* iterations of the for loop begun
  rv_rounds,   \* passes of the while loop that replaced something
  rv_ret,      \* the value returned
  rv_run,      \* 1: the first call; 2: the call on the first call's result
  rv_first,    \* what the first call returned
  \* evaluate_conditionals
  cd_conds,    \* the conditionals passed in
  cd_env,      \* the variables passed in
  cd_pc,       \* "loop", "done"
  cd_i,        \* the conditional the for loop is at
  cd_results,  \* the local `results`
  \* process_template
  pt_def,      \* template_def
  pt_user,     \* user_variables
  pt_key,      \* key
  pt_pc,       \* "call", "defaults", "pass1", "conditionals", "redefaults",
               \* "pass2", "overlay", "done", "raised"
  pt_vars,     \* the local `variables`
  pt_n,        \* passes the running fixed-point loop has left
  pt_out,      \* the resolved overlay returned
  \* load_templates and expand_overlay_file
  ex_file,     \* the overlay file
  ex_fs,       \* the files of the defaults directory
  ex_user,     \* user_template_variables
  ex_cache,    \* self._template_cache
  ex_loaded,   \* what the last call of load_templates gave, and the calls so far
  ex_pc,       \* "start", "entry", "call", "process", "done", "raised"
  ex_setup,    \* user_vars, all_templates, external_conditionals, overlays
  ex_i,        \* the entry the outer loop is at
  ex_c,        \* the template call the inner loop is at
  ex_merged,   \* the local `merged_overlay`
  ex_call,     \* the template call being processed
  ex_out,      \* expanded_overlays, returned at "done"
  \* load_templates, called concurrently on one TemplateProcessor
  ld_fs,       \* the files of the defaults directory
  ld_cache,    \* self._template_cache, shared by the calls
  ld_yaml,     \* self.yaml, shared by the calls: for each call inside
               \* yaml.load, the calls whose stream the parser was handed
               \* since it entered
  ld_pc,       \* of each call: "idle", "lookup", "exists", "open", "parse",
               \* "store", "done"
  ld_src,      \* of each call: template_source
  ld_data,     \* of each call: the local `data`
  ld_ret,      \* of each call: the value returned
  \* KometaScheduler, its loop threads, and the event loop
  sc_enabled,    \* self._enabled
  sc_expr,       \* self._schedule_expression
  sc_dry_run,    \* self._dry_run_only
  sc_callback,   \* self._run_callback and self._loop are set
  sc_jobs,       \* the job list of the `schedule` module
  sc_next_run,   \* self._next_run
  sc_last_run,   \* self._last_run is set
  sc_run_count,  \* self._run_count
  sc_thread,     \* self._scheduler_thread: a place in sc_tpc, 0 for None
  sc_stop_event, \* self._stop_event is set
  sc_tpc,        \* of each thread started: "test", "pending", "wait", "exit"
  sc_api,        \* the request being served: "idle", or "join" inside
                 \* _stop_scheduler_thread
  sc_calls,      \* configure and stop requests served or begun
  sc_queue,      \* _execute_run coroutines waiting on the event loop
  sc_invoked     \* calls of the run callback made

rvars == <<rv_value, rv_env, rv_pc, rv_result, rv_prev, rv_iter, rv_rounds,
           rv_ret, rv_run, rv_first>>
cvars == <<cd_conds, cd_env, cd_pc, cd_i, cd_results>>
pvars == <<pt_def, pt_user, pt_key, pt_pc, pt_vars, pt_n, pt_out>>
evars == <<ex_file, ex_fs, ex_user, ex_cache, ex_loaded, ex_pc, ex_setup,
           ex_i, ex_c, ex_merged, ex_call, ex_out>>

lvars == <<ld_fs, ld_cache, ld_yaml, ld_pc, ld_src, ld_data, ld_ret>>

svars == <<sc_enabled, sc_expr, sc_dry_run, sc_callback, sc_jobs, sc_next_run,
           sc_last_run, sc_run_count, sc_thread, sc_stop_event, sc_tpc, sc_api,
           sc_calls, sc_queue, sc_invoked>>

vars == <<rvars, cvars, pvars, evars, lvars, svars>>

\* A function of the program that a specification does not run stays idle.
RvIdle ==
  /\ rv_value = None /\ rv_env = <<>> /\ rv_pc = "idle"
  /\ rv_result = <<>> /\ rv_prev = <<>> /\ rv_iter = 0 /\ rv_rounds = 0
  /\ rv_ret = None /\ rv_run = 0 /\ rv_first = None

CdIdle ==
  /\ cd_conds = <<>> /\ cd_env = <<>> /\ cd_pc = "idle" /\ cd_i = 0
  /\ cd_results = <<>>

PtIdle ==
  /\ pt_def = <<>> /\ pt_user = <<>> /\ pt_key = None /\ pt_pc = "idle"
  /\ pt_vars = <<>> /\ pt_n = 0 /\ pt_out = <<>>

NoSetup ==
  [kind |-> "none", user_vars |-> <<>>, templates |-> <<>>,
   conditionals |-> <<>>, overlays |-> <<>>, cache |-> <<>>]

\* called, exc, ret: the last call; source: what it was asked for; n: the
\* calls made; failed: the sources a call found missing or unparsable
NoLoad == [called |-> FALSE, exc |-> FALSE, ret |-> EmptyDict,
           source |-> <<>>, n |-> 0, failed |-> {}]

ExIdle ==
  /\ ex_file = Missing /\ ex_fs = <<>> /\ ex_user = <<>> /\ ex_cache = <<>>
  /\ ex_loaded = NoLoad /\ ex_pc = "idle" /\ ex_setup = NoSetup
  /\ ex_i = 0 /\ ex_c = 0 /\ ex_merged = <<>> /\ ex_call = None
  /\ ex_out = <<>>

LdIdle ==
  /\ ld_fs = <<>> /\ ld_cache = <<>> /\ ld_yaml = <<>> /\ ld_pc = <<>>
  /\ ld_src = <<>> /\ ld_data = <<>> /\ ld_ret = <<>>

\* Lines 23-33: a KometaScheduler as constructed
ScIdle ==
  /\ sc_enabled = FALSE /\ sc_expr = None /\ sc_dry_run = TRUE
  /\ sc_callback = FALSE /\ sc_jobs = <<>> /\ sc_next_run = None
  /\ sc_last_run = FALSE /\ sc_run_count = 0 /\ sc_thread = 0
  /\ sc_stop_event = FALSE /\ sc_tpc = <<>> /\ sc_api = "idle"
  /\ sc_calls = 0 /\ sc_queue = 0 /\ sc_invoked = 0

\* --------------------------------------- resolve_variable, step by step

RvInit ==
  /\ rv_value \in RvValues /\ rv_env \in RvEnvs /\ rv_pc = "call"
  /\ rv_result = <<>> /\ rv_prev = <<>> /\ rv_iter = 0 /\ rv_rounds = 0
  /\ rv_ret = None /\ rv_run = 1 /\ rv_first = None
  /\ CdIdle /\ PtIdle /\ ExIdle /\ LdIdle /\ ScIdle

\* Lines 63-67 and 107-113: a string enters the for loop; any other value is
\* answered at once (a dict or a list through the recursive calls, which may
\* not return).
RvEnter ==
  /\ rv_pc = "call"
  /\ IF IsStr(rv_value)
     THEN /\ rv_result' = rv_value.s
          /\ rv_pc' = "for"
          /\ UNCHANGED rv_ret
     ELSE LET r == Resolve(rv_value, rv_env)
          IN IF Diverges(r)
             THEN rv_pc' = "hang" /\ UNCHANGED <<rv_result, rv_ret>>
             ELSE rv_pc' = "done" /\ rv_ret' = r /\ UNCHANGED rv_result
  /\ UNCHANGED <<rv_value, rv_env, rv_prev, rv_iter, rv_rounds, rv_run, rv_first>>
  /\ UNCHANGED <<cvars, pvars, evars, lvars, svars>>

\* Lines 70-71: the head of `for _ in range(max_depth)`
RvFor ==
  /\ rv_pc = "for"
  /\ IF rv_iter < MaxDepthDefault
     THEN /\ rv_prev' = rv_result
          /\ rv_iter' = rv_iter + 1
          /\ rv_pc' = "while"
          /\ UNCHANGED rv_ret
     ELSE /\ rv_ret' = Str(rv_result)
          /\ rv_pc' = "done"
          /\ UNCHANGED <<rv_prev, rv_iter>>
  /\ UNCHANGED <<rv_value, rv_env, rv_result, rv_rounds, rv_run, rv_first>>
  /\ UNCHANGED <<cvars, pvars, evars, lvars, svars>>

\* Lines 76-99: one pass of `while True`
RvWhile ==
  /\ rv_pc = "while"
  /\ rv_rounds < MaxScans
  /\ LET p == ScanPass(rv_result, rv_env)
     IN CASE p.kind = "return" ->
               /\ rv_ret' = p.val
               /\ rv_pc' = "done"
               /\ UNCHANGED <<rv_result, rv_rounds>>
          [] p.kind = "made" ->
               /\ rv_result' = p.result
               /\ rv_rounds' = rv_rounds + 1
               /\ UNCHANGED <<rv_pc, rv_ret>>
          [] OTHER ->
               /\ rv_pc' = "check"
               /\ UNCHANGED <<rv_result, rv_rounds, rv_ret>>
  /\ UNCHANGED <<rv_value, rv_env, rv_prev, rv_iter, rv_run, rv_first>>
  /\ UNCHANGED <<cvars, pvars, evars, lvars, svars>>

\* Lines 101-105: `if result == prev_result: break`, and the return
RvCheck ==
  /\ rv_pc = "check"
  /\ IF rv_result = rv_prev
     THEN rv_ret' = Str(rv_result) /\ rv_pc' = "done"
     ELSE rv_pc' = "for" /\ UNCHANGED rv_ret
  /\ UNCHANGED <<rv_value, rv_env, rv_result, rv_prev, rv_iter, rv_rounds,
                 rv_run, rv_first>>
  /\ UNCHANGED <<cvars, pvars, evars, lvars, svars>>

\* The caller resolves the returned value once more with the same variables.
RvAgain ==
  /\ rv_pc = "done" /\ rv_run = 1
  /\ rv_first' = rv_ret
  /\ rv_value' = rv_ret
  /\ rv_run' = 2
  /\ rv_pc' = "call"
  /\ rv_result' = <<>> /\ rv_prev' = <<>> /\ rv_iter' = 0 /\ rv_rounds' = 0
  /\ rv_ret' = None
  /\ UNCHANGED rv_env
  /\ UNCHANGED <<cvars, pvars, evars, lvars, svars>>

RvNext == RvEnter \/ RvFor \/ RvWhile \/ RvCheck \/ RvAgain

\* ------------------------------------ evaluate_conditionals, step by step

\* The most clauses a conditional of the inputs has
MaxClauses == 2

nC == <<"c">>
nD == <<"d">>
sTwo == <<"2">>

Val(j) == Str(<<"V", Digits(j)[1]>>)

\* The clauses the inputs are built from; the last is no mapping.
Clauses ==
  { Dict(<<KV(nA, Str(sOne)), KV(sValue, Val(1))>>),
    Dict(<<KV(nA, Str(sOne)), KV(nB, Str(sTwo)), KV(sValue, Val(2))>>),
    Dict(<<KV(nA \o sExists, Bool(TRUE)), KV(sValue, Val(3))>>),
    Dict(<<KV(sValue, Str(Placeholder(nA))), KV(nB \o sNot, Str(sTwo))>>),
    Dict(<<KV(nC \o sExists, Str(<<"F", "a", "l", "s", "e">>))>>),
    Dict(<<KV(nA, List(<<Num(1), Str(sTwo)>>)), KV(sValue, Val(6))>>),
    Dict(<<KV(Placeholder(nK), Num(1)), KV(sValue, Num(7))>>),
    Dict(<<KV(nB \o sExists, Bool(TRUE)), KV(sValue, Val(8))>>),
    Dict(<<KV(nB \o sExists, Bool(FALSE)), KV(sValue, Val(9))>>),
    Dict(<<KV(nA \o sNot, List(<<Str(sOne), Num(1)>>)), KV(sValue, Val(4))>>),
    Str(<<"j", "u", "n", "k">>) }

RECURSIVE SeqsUpTo(_, _)
SeqsUpTo(S, n) ==
  IF n = 0 THEN {<<>>}
  ELSE LET shorter == SeqsUpTo(S, n - 1)
       IN shorter \cup {Append(q, x) : q \in shorter, x \in S}

\* A conditional: with or without a default; its clauses as a list, or a
\* lone clause not wrapped in a list
CondDefs ==
  LET conditions == {List(q) : q \in SeqsUpTo(Clauses, MaxClauses)}
                    \cup {c \in Clauses : IsDict(c)}
  IN {Dict(<<KV(sConditions, cs)>>) : cs \in conditions}
     \cup {Dict(<<KV(sDefault, Str(nD)), KV(sConditions, cs)>>) : cs \in conditions}
     \cup {Dict(<<KV(sDefault, Str(nD))>>)}

CdEnvs ==
  { <<>>,
    <<KV(nA, Str(sOne)), KV(nK, Str(nA))>>,
    <<KV(nA, Num(1)), KV(nB, Str(sTwo)), KV(nK, Str(nB))>>,
    <<KV(nA, Str(sTwo)), KV(nB, Str(Placeholder(nC))), KV(nC, None)>>,
    \* b holds ">>" and "<<" and no placeholder
    <<KV(nA, Str(sOne)), KV(nB, Str(<<GT, GT, "x", LT, LT>>))>> }

\* The second conditional: no mapping, a lone default, or one that asks
\* for the variable the first conditional is named after
SecondDefs ==
  { Str(nX),
    Dict(<<KV(sDefault, Num(0))>>),
    Dict(<<KV(sDefault, Str(Placeholder(nC))),
           KV(sConditions,
              List(<<Dict(<<KV(nC \o sExists, Bool(TRUE)), KV(sValue, Val(5))>>)>>))>>) }

CdInit ==
  /\ \E first \in CondDefs, second \in SecondDefs :
       cd_conds = <<KV(nC, first), KV(nD, second)>>
  /\ cd_env \in CdEnvs
  /\ cd_pc = "loop" /\ cd_i = 1 /\ cd_results = <<>>
  /\ RvIdle /\ PtIdle /\ ExIdle /\ LdIdle /\ ScIdle

\* The variables with the results so far stored in them
VariablesWithResults(variables, results) == Update(variables, results)

\* Lines 127-211: what a conditional is evaluated against: `variables`,
\* in which no result is stored (results go to the dict of line 121)
VariablesSeen(variables, results) == variables

\* Lines 123-212: one conditional of the for loop
CdConditional ==
  /\ cd_pc = "loop" /\ cd_i <= Len(cd_conds)
  /\ cd_results' = EvalFrom(SubSeq(cd_conds, cd_i, cd_i), 1,
                            VariablesSeen(cd_env, cd_results), cd_results)
  /\ cd_i' = cd_i + 1
  /\ UNCHANGED <<cd_conds, cd_env, cd_pc>>
  /\ UNCHANGED <<rvars, pvars, evars, lvars, svars>>

\* Line 214: the loop is over, results is returned
CdReturn ==
  /\ cd_pc = "loop" /\ cd_i > Len(cd_conds)
  /\ cd_pc' = "done"
  /\ UNCHANGED <<cd_conds, cd_env, cd_i, cd_results>>
  /\ UNCHANGED <<rvars, pvars, evars, lvars, svars>>

CdNext == CdConditional \/ CdReturn

\* --------------------------------------------- process_template, step by step

nF == <<"f">>
nG == <<"g">>
nN == <<"n">>
nR1 == <<"r", "1">>
nZ == <<"z", "z">>
sU == <<"U">>

\* The names r<<n>> and <<r<<n>>>>
nRn == <<"r">> \o Placeholder(nN)

\* The templates the inputs are built from
PtTemplates ==
  { \* a parametrized default key, named after its parameter's default
    <<KV(sDefault, Dict(<<KV(nRn, Str(nD)), KV(nN, Str(sOne))>>)),
      KV(sOverlay, Dict(<<KV(sName, Str(Placeholder(nR1))),
                          KV(nF, Str(Placeholder(nRn)))>>))>>,
    \* defaults that need the key, an overlay field that stays open
    <<KV(sDefault, Dict(<<KV(nA, Str(Placeholder(sKey))), KV(nB, Str(nB))>>)),
      KV(sOverlay, Dict(<<KV(sName, Str(nX \o Placeholder(nA))),
                          KV(nF, Str(Placeholder(nB))),
                          KV(nG, Str(Placeholder(nZ)))>>))>>,
    \* a conditional on a variable with a default
    <<KV(sDefault, Dict(<<KV(nA, Str(nD))>>)),
      KV(sConditionals,
         Dict(<<KV(nC, Dict(<<KV(sDefault, Str(nC)),
                               KV(sConditions,
                                  List(<<Dict(<<KV(nA, Str(sU)),
                                                KV(sValue, Str(nC \o sU))>>)>>))>>))>>)),
      KV(sOverlay, Dict(<<KV(sName, Str(Placeholder(nC))),
                          KV(nF, Str(Placeholder(nA)))>>))>>,
    \* a conditional that names a variable the caller may give
    <<KV(sConditionals, Dict(<<KV(nA, Dict(<<KV(sDefault, Str(nC))>>))>>)),
      KV(sOverlay, Dict(<<KV(sName, Str(Placeholder(nA)))>>))>>,
    \* a chain of defaults, one link resolved by each pass
    <<KV(sDefault, Dict(<<KV(nA, Str(Placeholder(nB))), KV(nB, Str(Placeholder(nC))),
                          KV(nC, Str(Placeholder(nD))), KV(nD, Str(Placeholder(nF))),
                          KV(nF, Str(sOne))>>)),
      KV(sOverlay, Dict(<<KV(nF, Str(Placeholder(nA))),
                          KV(Placeholder(nF), List(<<Str(Placeholder(nA))>>))>>))>>,
    \* a conditional named after the result of another conditional
    <<KV(sConditionals, Dict(<<KV(nN, Dict(<<KV(sDefault, Str(sOne))>>)),
                               KV(nRn, Dict(<<KV(sDefault, Str(nC))>>))>>)),
      KV(sOverlay, Dict(<<KV(sName, Str(Placeholder(nR1)))>>))>>,
    \* a default whose key holds a placeholder no variable resolves
    <<KV(sDefault, Dict(<<KV(nX \o Placeholder(nZ), Str(nD))>>)),
      KV(sOverlay, Dict(<<KV(sName, Str(<<"l", "i", "t">>))>>))>>,
    \* no defaults
    <<KV(sOverlay, Dict(<<KV(sName, Str(<<"l", "i", "t">>))>>))>>,
    \* no overlay
    <<KV(sDefault, Dict(<<KV(nA, Str(nD))>>))>>,
    \* sections that are no mappings
    <<KV(sDefault, Str(nD)), KV(sConditionals, None), KV(sOverlay, Str(nX))>> }

PtUsers ==
  { <<>>,
    <<KV(nR1, Str(sU))>>,
    <<KV(nA, Str(sU))>>,
    <<KV(nA, Str(Placeholder(nZ)))>>,
    <<KV(nA, Str(sU)), KV(nN, Str(sTwo))>>,
    <<KV(nB, None)>>,
    <<KV(sKey, Str(sU)), KV(nC, Num(1))>> }

PtInit ==
  /\ pt_def \in PtTemplates /\ pt_user \in PtUsers
  /\ pt_key \in {Str(<<>>), Str(nK)}
  /\ pt_pc = "call" /\ pt_vars = <<>> /\ pt_n = 0 /\ pt_out = <<>>
  /\ RvIdle /\ CdIdle /\ ExIdle /\ LdIdle /\ ScIdle

\* Lines 229-233: copy the caller's variables and set `key`
PtSeed ==
  /\ pt_pc = "call"
  /\ pt_vars' = SeedVariables(pt_user, pt_key)
  /\ pt_pc' = "defaults"
  /\ UNCHANGED <<pt_def, pt_user, pt_key, pt_n, pt_out>>
  /\ UNCHANGED <<rvars, cvars, evars, lvars, svars>>

\* Lines 237-243: the first default merge
PtDefaults ==
  /\ pt_pc = "defaults"
  /\ pt_vars' = DefaultsFirst(DefaultsOf(pt_def), 1, pt_vars)
  /\ pt_pc' = "pass1"
  /\ pt_n' = FixpointPasses
  /\ UNCHANGED <<pt_def, pt_user, pt_key, pt_out>>
  /\ UNCHANGED <<rvars, cvars, evars, lvars, svars>>

\* Lines 246-263: one pass of the first fixed-point loop, which ends when
\* the pass changed nothing or was the last
PtFirstPass ==
  /\ pt_pc = "pass1" /\ pt_n > 0
  /\ LET next == FirstPass(pt_vars)
     IN /\ pt_vars' = next
        /\ pt_n' = pt_n - 1
        /\ pt_pc' = IF DictEq(next, pt_vars) \/ pt_n = 1
                     THEN "conditionals" ELSE "pass1"
  /\ UNCHANGED <<pt_def, pt_user, pt_key, pt_out>>
  /\ UNCHANGED <<rvars, cvars, evars, lvars, svars>>

\* Lines 267-269: the conditionals' results are merged over the variables
PtConditionals ==
  /\ pt_pc = "conditionals"
  /\ pt_vars' = ApplyConditionals(pt_def, pt_vars)
  /\ pt_pc' = "redefaults"
  /\ UNCHANGED <<pt_def, pt_user, pt_key, pt_n, pt_out>>
  /\ UNCHANGED <<rvars, cvars, evars, lvars, svars>>

\* Lines 274-286: the second default merge
PtRedefaults ==
  /\ pt_pc = "redefaults"
  /\ pt_vars' = DefaultsSecond(DefaultsOf(pt_def), 1, pt_vars)
  /\ pt_pc' = "pass2"
  /\ pt_n' = FixpointPasses
  /\ UNCHANGED <<pt_def, pt_user, pt_key, pt_out>>
  /\ UNCHANGED <<rvars, cvars, evars, lvars, svars>>

\* Lines 289-296: one pass of the second fixed-point loop
PtSecondPass ==
  /\ pt_pc = "pass2" /\ pt_n > 0
  /\ LET next == SecondPass(pt_vars)
     IN /\ pt_vars' = next
        /\ pt_n' = pt_n - 1
        /\ pt_pc' = IF DictEq(next, pt_vars) \/ pt_n = 1
                     THEN "overlay" ELSE "pass2"
  /\ UNCHANGED <<pt_def, pt_user, pt_key, pt_out>>
  /\ UNCHANGED <<rvars, cvars, evars, lvars, svars>>

\* Lines 300-316: the overlay is resolved and returned
PtOverlay ==
  /\ pt_pc = "overlay"
  /\ IF OverlayRaises(pt_def)
     THEN pt_pc' = "raised" /\ UNCHANGED pt_out
     ELSE pt_pc' = "done" /\ pt_out' = ResolveOverlay(pt_def, pt_vars)
  /\ UNCHANGED <<pt_def, pt_user, pt_key, pt_vars, pt_n>>
  /\ UNCHANGED <<rvars, cvars, evars, lvars, svars>>

PtNext ==
  \/ PtSeed \/ PtDefaults \/ PtFirstPass \/ PtConditionals
  \/ PtRedefaults \/ PtSecondPass \/ PtOverlay

\* ------------------------- load_templates and expand_overlay_file, step by step

nE1 == <<"e", "1">>
nT1 == <<"t", "1">>
nT2 == <<"t", "2">>
nO1 == <<"o", "1">>
nO2 == <<"x", "-", "k">>
nO3 == <<"o", "3">>
sLib == <<"l", "i", "b">>
sPng == <<".", "p", "n", "g">>
sRating1 == sRating \o sOne

\* The `templates` section of the overlay files
LocalTemplates ==
  Dict(<<
    KV(nT1, Dict(<<
      KV(sDefault, Dict(<<KV(nA, Str(nD)), KV(nF, Str(Placeholder(nA) \o sPng))>>)),
      KV(sOverlay, Dict(<<KV(sName, Str(nN \o Placeholder(nZ))),
                          KV(nF, Str(Placeholder(nF))),
                          KV(nG, Str(Placeholder(nZ))),
                          KV(nB, Str(Placeholder(nB))),
                          KV(nX, Str(Placeholder(nA)))>>))>>)),
    KV(nT2, Dict(<<
      KV(sConditionals, Dict(<<KV(nA, Dict(<<KV(sDefault, Str(nC))>>)),
                               KV(nC, Dict(<<KV(sDefault, Str(sU))>>))>>)),
      KV(sOverlay, Dict(<<KV(sName, Str(Placeholder(nA))),
                          KV(<<"_", "h">>, Str(nX)),
                          KV(nX, List(<<Str(Placeholder(nA))>>))>>))>>)),
    KV(sStandard, List(<<Dict(<<
      KV(sOverlay, Dict(<<KV(sName, Str(Placeholder(sKey)))>>))>>)>>)) >>)

\* The templates of the library file
LibTemplates ==
  Dict(<<
    KV(nE1, Dict(<<
      KV(sDefault, Dict(<<KV(nB, Str(nD))>>)),
      KV(sOverlay, Dict(<<KV(sName, Str(Placeholder(nA))),
                          KV(nF, Str(Placeholder(nB))),
                          KV(nG, Str(Placeholder(nC)))>>))>>)),
    KV(nT2, Dict(<<KV(sOverlay, Str(nX))>>)) >>)

\* `external_templates` sections
External(source) ==
  Dict(<<KV(sDefault, source),
         KV(sTemplateVariables,
            Dict(<<KV(nA, Str(nX)),
                   KV(sDefault, Dict(<<KV(nB, Str(nB))>>)),
                   KV(sConditionals,
                      Dict(<<KV(nC, Dict(<<KV(sDefault, Str(nC))>>))>>))>>))>>)

\* `overlays` sections
TemplateEntries ==
  Dict(<<
    KV(nO1, Dict(<<KV(sTemplate, Str(nT1))>>)),
    KV(nO2, Dict(<<KV(sTemplate, List(<<Dict(<<KV(sName, Str(nT2)), KV(nB, Str(sOne))>>),
                                        Str(nT1), Num(5), Str(nZ),
                                        Dict(<<KV(nG, Str(nG))>>)>>)),
                   KV(sVariables, Dict(<<KV(nF, Str(nF))>>))>>)),
    KV(nO3, Dict(<<KV(sTemplate, Str(nZ))>>)) >>)

DirectEntries ==
  Dict(<<
    KV(nO1, Dict(<<KV(sOverlay, Dict(<<KV(sName, Str(nD)),
                                       KV(nF, Str(Placeholder(nZ))),
                                       KV(nG, Str(Placeholder(nA))),
                                       KV(nX, None)>>))>>)),
    KV(nO2, Str(nX)),
    KV(nO3, Dict(<<KV(sOverlay, Str(nX))>>)) >>)

ExternalEntries ==
  Dict(<<
    KV(nO1, Dict(<<KV(sTemplate, Dict(<<KV(sName, Str(nE1))>>)),
                   KV(sTemplateVariables, Dict(<<KV(nG, Str(nG))>>))>>)),
    KV(nO2, Dict(<<KV(sTemplate, List(<<Str(nT2)>>))>>)) >>)

MixedEntries ==
  Dict(<<
    KV(nO1, Dict(<<KV(sOverlay, Dict(<<KV(sName, Str(nD)),
                                       KV(sUnderTemplate, Str(nX))>>))>>)),
    KV(nO2, Dict(<<KV(sVariables, Dict(<<KV(nA, Str(nX))>>))>>)),
    KV(nO3, Dict(<<KV(sTemplate, Str(nT1))>>)) >>)

BadLabelEntries ==
  Dict(<<KV(nO1, Dict(<<KV(sTemplate, List(<<Str(nT1), Str(nZ)>>))>>)),
         KV(nO2, Dict(<<KV(sTemplate, List(<<Str(nT1), Num(5)>>))>>))>>)

\* The overlay files: missing, unparsable, or parsed to a value
ExFiles ==
  { Missing, Bad, Parsed(None), Parsed(EmptyDict),
    Parsed(List(<<Str(nX)>>)),
    Parsed(Dict(<<KV(sTemplates, LocalTemplates), KV(sOverlays, TemplateEntries)>>)),
    Parsed(Dict(<<KV(sTemplates, LocalTemplates), KV(sOverlays, BadLabelEntries)>>)),
    Parsed(Dict(<<KV(sOverlays, DirectEntries)>>)),
    Parsed(Dict(<<KV(sTemplates, LocalTemplates), KV(sOverlays, MixedEntries)>>)),
    Parsed(Dict(<<KV(sTemplates, LocalTemplates), KV(sOverlays, None)>>)),
    Parsed(Dict(<<KV(sTemplates, None), KV(sOverlays, DirectEntries)>>)),
    Parsed(Dict(<<KV(sTemplates, LocalTemplates)>>)),
    Parsed(Dict(<<KV(sExternalTemplates, None), KV(sOverlays, TemplateEntries)>>)),
    Parsed(Dict(<<KV(sExternalTemplates, External(Str(sLib))),
                  KV(sOverlays, ExternalEntries)>>)),
    Parsed(Dict(<<KV(sExternalTemplates, External(Str(sTemplates))),
                  KV(sTemplates, LocalTemplates),
                  KV(sOverlays, ExternalEntries)>>)),
    Parsed(Dict(<<KV(sExternalTemplates, External(Str(sLib))),
                  KV(sTemplates, LocalTemplates),
                  KV(sOverlays, DirectEntries)>>)),
    Parsed(Dict(<<KV(sExternalTemplates, External(Num(5))),
                  KV(sOverlays, ExternalEntries)>>)) }

\* The files of the defaults directory
ExFileSystems ==
  { <<>>,
    <<KV(sLib, Parsed(Dict(<<KV(sTemplates, LibTemplates)>>)))>>,
    <<KV(sLib, Bad), KV(sTemplatesYml, Parsed(Dict(<<KV(sTemplates, LibTemplates)>>)))>>,
    <<KV(sLib, Parsed(Dict(<<KV(sTemplates, None)>>))), KV(sTemplatesYml, Parsed(None))>>,
    <<KV(sLib, Parsed(List(<<Str(nX)>>))),
      KV(sTemplatesYml, Parsed(Dict(<<KV(sTemplates, List(<<Str(nX)>>))>>)))>>,
    <<KV(sLib, Parsed(Dict(<<KV(nX, Num(1))>>)))>> }

ExUsers ==
  { <<>>,
    <<KV(nA, Str(sU))>>,
    <<KV(nB, Str(sU)), KV(sKey, Str(nK))>>,
    <<KV(sRating1, Str(<<"u", " ", "/", " ", "i">>)), KV(nC, Num(1))>>,
    <<KV(sRating \o <<"2">>, Str(<<"u", " ", " ", "/", " ", " ", "i", " ", "/", " ", "j">>)),
      KV(sRating \o <<"2">> \o sImage, Str(nX)),
      KV(sRating \o <<"3">>, Num(5)),
      KV(sRating \o <<"4">>, Str(<<"a", " ", "/", " ", "b">>))>> }

\* The sources load_templates is called with
LoadSources == {sTemplates, sLib}

\* The calls of load_templates made before the expansion
MaxLoads == 2

\* A library file that parses
ValidLibrary == Parsed(Dict(<<KV(sTemplates, LibTemplates)>>))

ExInit ==
  /\ ex_file \in ExFiles /\ ex_fs \in ExFileSystems /\ ex_user \in ExUsers
  /\ ex_cache = <<>> /\ ex_loaded = NoLoad /\ ex_pc = "start"
  /\ ex_setup = NoSetup /\ ex_i = 0 /\ ex_c = 0 /\ ex_merged = <<>>
  /\ ex_call = None /\ ex_out = <<>>
  /\ RvIdle /\ CdIdle /\ PtIdle /\ LdIdle /\ ScIdle

\* The entry and the template calls the loops are at
ExName == ex_setup.overlays[ex_i].k
ExDef == ex_setup.overlays[ex_i].v
ExCalls == TemplateCalls(ExDef.kv)

\* Lines 29-53: a call of load_templates
ExLoad ==
  /\ ex_pc = "start" /\ ex_loaded.n < MaxLoads
  /\ \E source \in LoadSources :
       LET r == LoadTemplates(ex_cache, ex_fs, Str(source))
           found == FileAt(ex_fs, PathOf(source)).st
       IN /\ ex_loaded' = [called |-> TRUE, exc |-> r.exc, ret |-> r.ret,
                           source |-> source, n |-> ex_loaded.n + 1,
                           failed |-> IF found # "ok" /\ ~Has(ex_cache, source)
                                      THEN ex_loaded.failed \cup {source}
                                      ELSE ex_loaded.failed]
          /\ ex_cache' = r.cache
  /\ UNCHANGED <<ex_file, ex_fs, ex_user, ex_pc, ex_setup, ex_i, ex_c,
                 ex_merged, ex_call, ex_out>>
  /\ UNCHANGED <<rvars, cvars, pvars, lvars, svars>>

\* Lines 42-47 read the file system: between two calls a valid file may
\* appear at a path where load_templates found none it could parse
ExWrite ==
  /\ ex_pc = "start" /\ ex_loaded.called
  /\ \E source \in LoadSources :
       /\ FileAt(ex_fs, PathOf(source)).st # "ok"
       /\ ex_fs' = Put(ex_fs, PathOf(source), ValidLibrary)
  /\ UNCHANGED <<ex_file, ex_user, ex_cache, ex_loaded, ex_pc, ex_setup, ex_i,
                 ex_c, ex_merged, ex_call, ex_out>>
  /\ UNCHANGED <<rvars, cvars, pvars, lvars, svars>>

\* Lines 397-439: expand_overlay_file up to its loop
ExBegin ==
  /\ ex_pc = "start"
  /\ LET setup == ExpandSetup(ex_file, ex_user, ex_cache, ex_fs)
     IN /\ ex_setup' = setup
        /\ ex_cache' = setup.cache
        /\ ex_pc' = CASE setup.kind = "return" -> "done"
                       [] setup.kind = "raise" -> "raised"
                       [] OTHER -> "entry"
  /\ ex_i' = 1
  /\ UNCHANGED <<ex_file, ex_fs, ex_user, ex_loaded, ex_c, ex_merged, ex_call,
                 ex_out>>
  /\ UNCHANGED <<rvars, cvars, pvars, lvars, svars>>

\* Lines 440-467 and 517-530: the head of the loop over the entries. A
\* direct entry is resolved and appended, a template entry begins its calls.
ExEntry ==
  /\ ex_pc = "entry" /\ ex_i <= Len(ex_setup.overlays)
  /\ LET kind == EntryKind(ExDef)
     IN CASE kind = "template" ->
               /\ ex_pc' = "call" /\ ex_c' = 1 /\ ex_merged' = <<>>
               /\ ex_call' = None
               /\ UNCHANGED <<ex_i, ex_out>>
          [] kind = "direct" ->
               /\ ex_out' = AppendOverlay(ex_out,
                                   DirectElement(Get(ExDef.kv, sOverlay).kv,
                                                 ex_setup.user_vars, ExName))
               /\ ex_i' = ex_i + 1
               /\ UNCHANGED <<ex_pc, ex_c, ex_merged, ex_call>>
          [] OTHER ->
               /\ ex_i' = ex_i + 1
               /\ UNCHANGED <<ex_pc, ex_c, ex_merged, ex_call, ex_out>>
  /\ UNCHANGED <<ex_file, ex_fs, ex_user, ex_cache, ex_loaded, ex_setup>>
  /\ UNCHANGED <<rvars, cvars, pvars, lvars, svars>>

\* Lines 468-500: one template call of the entry, up to the call of
\* process_template. A call that names no template is skipped; a name that
\* cannot be looked up and a `conditionals` that cannot be merged raise.
ExCall ==
  /\ ex_pc = "call" /\ ex_c <= Len(ExCalls)
  /\ LET tmpl_call == ExCalls[ex_c]
         tmpl_name == KeyOf(CallName(tmpl_call))
         effective == EffectiveTemplate(Get(ex_setup.templates, tmpl_name),
                                        ex_setup.conditionals)
         combined_vars == Update(OverlayVars(ex_setup.user_vars, ExDef.kv, ExName),
                                 CallVars(tmpl_call))
     IN IF IsCall(tmpl_call) /\ Unhashable(CallName(tmpl_call))
        THEN /\ ex_pc' = "raised"
             /\ UNCHANGED <<ex_c, ex_call, pvars>>
        ELSE IF ~IsCall(tmpl_call) \/ ~Has(ex_setup.templates, tmpl_name)
        THEN /\ ex_c' = ex_c + 1
             /\ UNCHANGED <<ex_pc, ex_call, pvars>>
        ELSE IF effective.exc
        THEN /\ ex_pc' = "raised"
             /\ UNCHANGED <<ex_c, ex_call, pvars>>
        ELSE /\ ex_pc' = "process"
             /\ ex_call' = tmpl_call
             /\ pt_def' = effective.def
             /\ pt_user' = combined_vars
             /\ pt_key' = GetOr(combined_vars, sKey, Str(<<>>))
             /\ pt_pc' = "call" /\ pt_vars' = <<>> /\ pt_n' = 0 /\ pt_out' = <<>>
             /\ UNCHANGED ex_c
  /\ UNCHANGED <<ex_file, ex_fs, ex_user, ex_cache, ex_loaded, ex_setup, ex_i,
                 ex_merged, ex_out>>
  /\ UNCHANGED <<rvars, cvars, lvars, svars>>

\* Lines 500-505: process_template has returned (or raised); what it
\* resolved is merged into the entry's overlay
ExMerge ==
  /\ ex_pc = "process" /\ pt_pc \in {"done", "raised"}
  /\ IF pt_pc = "raised" \/ \E j \in 1..Len(pt_out) : ~IsStrKey(pt_out[j].k)
     THEN ex_pc' = "raised" /\ UNCHANGED <<ex_c, ex_merged>>
     ELSE /\ ex_merged' = MergeResolved(pt_out, 1, ex_merged)
          /\ ex_c' = ex_c + 1
          /\ ex_pc' = "call"
  /\ UNCHANGED <<ex_file, ex_fs, ex_user, ex_cache, ex_loaded, ex_setup, ex_i,
                 ex_call, ex_out>>
  /\ UNCHANGED <<rvars, cvars, pvars, lvars, svars>>

\* Lines 507-513: the calls are over; what they merged, if anything, is
\* labelled and appended
ExEntryEnd ==
  /\ ex_pc = "call" /\ ex_c > Len(ExCalls)
  /\ LET element == TemplateElement(ex_merged, ExName, ExCalls)
     IN IF ex_merged = <<>>
        THEN ex_pc' = "entry" /\ ex_i' = ex_i + 1 /\ UNCHANGED ex_out
        ELSE IF element.exc
        THEN ex_pc' = "raised" /\ UNCHANGED <<ex_i, ex_out>>
        ELSE /\ ex_out' = AppendOverlay(ex_out, element.overlay)
             /\ ex_pc' = "entry" /\ ex_i' = ex_i + 1
  /\ UNCHANGED <<ex_file, ex_fs, ex_user, ex_cache, ex_loaded, ex_setup, ex_c,
                 ex_merged, ex_call>>
  /\ UNCHANGED <<rvars, cvars, pvars, lvars, svars>>

\* Line 532: the loop is over, expanded_overlays is returned
ExReturn ==
  /\ ex_pc = "entry" /\ ex_i > Len(ex_setup.overlays)
  /\ ex_pc' = "done"
  /\ UNCHANGED <<ex_file, ex_fs, ex_user, ex_cache, ex_loaded, ex_setup, ex_i,
                 ex_c, ex_merged, ex_call, ex_out>>
  /\ UNCHANGED <<rvars, cvars, pvars, lvars, svars>>

ExNext ==
  \/ ExLoad \/ ExWrite \/ ExBegin \/ ExEntry \/ ExCall \/ ExMerge \/ ExEntryEnd \/ ExReturn
  \/ PtSeed \/ PtDefaults \/ PtFirstPass \/ PtConditionals
  \/ PtRedefaults \/ PtSecondPass \/ PtOverlay

\* ------------------------------- load_templates, called concurrently

\* The calls of load_templates in flight on one TemplateProcessor
NumCalls == 2
LdCalls == 1..NumCalls

LdFileSystems ==
  { <<KV(sLib, ValidLibrary),
      KV(sTemplatesYml, Parsed(Dict(<<KV(sTemplates, LocalTemplates)>>)))>>,
    <<KV(sLib, ValidLibrary)>>,
    <<KV(sLib, Bad), KV(sTemplatesYml, ValidLibrary)>>,
    <<KV(sLib, Parsed(None)),
      KV(sTemplatesYml, Parsed(Dict(<<KV(sTemplates, LocalTemplates)>>)))>> }

LdInit ==
  /\ ld_fs \in LdFileSystems /\ ld_cache = <<>>
  /\ ld_yaml = [t \in LdCalls |-> {}]
  /\ ld_pc = [t \in LdCalls |-> "idle"]
  /\ ld_src = [t \in LdCalls |-> <<>>]
  /\ ld_data = [t \in LdCalls |-> None]
  /\ ld_ret = [t \in LdCalls |-> None]
  /\ RvIdle /\ CdIdle /\ PtIdle /\ ExIdle /\ ScIdle

\* Line 29: a thread calls load_templates(template_source)
LdCall(t) ==
  /\ ld_pc[t] = "idle"
  /\ \E source \in LoadSources : ld_src' = [ld_src EXCEPT ![t] = source]
  /\ ld_pc' = [ld_pc EXCEPT ![t] = "lookup"]
  /\ UNCHANGED <<ld_fs, ld_cache, ld_yaml, ld_data, ld_ret>>
  /\ UNCHANGED <<rvars, cvars, pvars, evars, svars>>

\* Lines 31-32: a cached source is answered from the cache (no entry is
\* ever removed, so the test and the read see the same entry)
LdLookup(t) ==
  /\ ld_pc[t] = "lookup"
  /\ IF Has(ld_cache, ld_src[t])
     THEN /\ ld_ret' = [ld_ret EXCEPT ![t] = Get(ld_cache, ld_src[t])]
          /\ ld_pc' = [ld_pc EXCEPT ![t] = "done"]
     ELSE /\ ld_pc' = [ld_pc EXCEPT ![t] = "exists"]
          /\ UNCHANGED ld_ret
  /\ UNCHANGED <<ld_fs, ld_cache, ld_yaml, ld_src, ld_data>>
  /\ UNCHANGED <<rvars, cvars, pvars, evars, svars>>

\* Lines 35-43: the path, and the empty mapping when nothing is there
LdExists(t) ==
  /\ ld_pc[t] = "exists"
  /\ IF FileAt(ld_fs, PathOf(ld_src[t])).st = "missing"
     THEN /\ ld_ret' = [ld_ret EXCEPT ![t] = EmptyDict]
          /\ ld_pc' = [ld_pc EXCEPT ![t] = "done"]
     ELSE /\ ld_pc' = [ld_pc EXCEPT ![t] = "open"]
          /\ UNCHANGED ld_ret
  /\ UNCHANGED <<ld_fs, ld_cache, ld_yaml, ld_src, ld_data>>
  /\ UNCHANGED <<rvars, cvars, pvars, evars, svars>>

\* Lines 46-47: the file is opened and self.yaml.load(f) is entered. The
\* one YAML object of line 26 is handed this call's stream, while it may
\* still be parsing for other calls.
LdOpen(t) ==
  /\ ld_pc[t] = "open"
  /\ LET inside == {u \in LdCalls : ld_yaml[u] # {}}
     IN ld_yaml' = [u \in LdCalls |->
                      IF u = t THEN inside \cup {t}
                      ELSE IF u \in inside THEN ld_yaml[u] \cup {t}
                      ELSE ld_yaml[u]]
  /\ ld_pc' = [ld_pc EXCEPT ![t] = "parse"]
  /\ UNCHANGED <<ld_fs, ld_cache, ld_src, ld_data, ld_ret>>
  /\ UNCHANGED <<rvars, cvars, pvars, evars, svars>>

\* What yaml.load can give a call: the parse of its own file when the
\* parser served this call alone; when the parser was handed other streams
\* meanwhile (unsynchronised use of one parser), the parse of any of the
\* streams or an exception
ParseOutcomes(t) ==
  {FileAt(ld_fs, PathOf(ld_src[u])) : u \in ld_yaml[t]}
    \cup (IF ld_yaml[t] = {t} THEN {} ELSE {Bad})

\* Line 47 returns or raises; lines 51-53 answer an exception with the
\* empty mapping
LdParse(t) ==
  /\ ld_pc[t] = "parse"
  /\ \E outcome \in ParseOutcomes(t) :
       IF outcome.st # "ok"
       THEN /\ ld_ret' = [ld_ret EXCEPT ![t] = EmptyDict]
            /\ ld_pc' = [ld_pc EXCEPT ![t] = "done"]
            /\ UNCHANGED ld_data
       ELSE /\ ld_data' = [ld_data EXCEPT ![t] = outcome.data]
            /\ ld_pc' = [ld_pc EXCEPT ![t] = "store"]
            /\ UNCHANGED ld_ret
  /\ ld_yaml' = [ld_yaml EXCEPT ![t] = {}]
  /\ UNCHANGED <<ld_fs, ld_cache, ld_src>>
  /\ UNCHANGED <<rvars, cvars, pvars, evars, svars>>

\* Lines 48-53: the templates of the data are cached and returned; data
\* that has no get() raises, which is answered with the empty mapping
LdStore(t) ==
  /\ ld_pc[t] = "store"
  /\ IF ~Falsy(ld_data[t]) /\ ~IsDict(ld_data[t])
     THEN /\ ld_ret' = [ld_ret EXCEPT ![t] = EmptyDict]
          /\ UNCHANGED ld_cache
     ELSE LET templates == IF Falsy(ld_data[t]) THEN EmptyDict
                           ELSE GetOr(ld_data[t].kv, sTemplates, EmptyDict)
          IN /\ ld_cache' = Put(ld_cache, ld_src[t], templates)
             /\ ld_ret' = [ld_ret EXCEPT ![t] = templates]
  /\ ld_pc' = [ld_pc EXCEPT ![t] = "done"]
  /\ UNCHANGED <<ld_fs, ld_yaml, ld_src, ld_data>>
  /\ UNCHANGED <<rvars, cvars, pvars, evars, svars>>

LdNext ==
  \E t \in LdCalls :
    LdCall(t) \/ LdLookup(t) \/ LdExists(t) \/ LdOpen(t) \/ LdParse(t) \/ LdStore(t)

\* ------------------------------------------------ the scheduler at work

\* configure and stop requests a run of the model serves
MaxApiCalls == 3

\* Scheduled runs a run of the model lets come due
MaxRuns == 1

\* The `schedule` field of a request
ScExpressions ==
  { None,
    Str(sDaily),
    Str(<<" ", "H", "o", "u", "r", "l", "y">>),
    Str(<<"m", "o", "n", "t", "h", "l", "y", "(", "3", "0", ")">>),
    Str(<<"w", "e", "e", "k", "l", "y", "(", "f", "u", "n", "d", "a", "y", ")">>),
    Str(<<"b", "o", "g", "u", "s">>) }

\* Days of the month the next monthly run falls in
MonthLengths == {28, 31}

\* The `dry_run_only` field of a request
DryRunValues == {TRUE}

\* Lines 23-33, and app.py lines 89-90: the scheduler once the application
\* has started and set the callback
ScInit ==
  /\ sc_enabled = FALSE /\ sc_expr = None /\ sc_dry_run = TRUE
  /\ sc_callback = TRUE /\ sc_jobs = <<>> /\ sc_next_run = None
  /\ sc_last_run = FALSE /\ sc_run_count = 0 /\ sc_thread = 0
  /\ sc_stop_event = FALSE /\ sc_tpc = <<>> /\ sc_api = "idle"
  /\ sc_calls = 0 /\ sc_queue = 0 /\ sc_invoked = 0
  /\ RvIdle /\ CdIdle /\ PtIdle /\ ExIdle /\ LdIdle

\* Line 227: self._scheduler_thread and self._scheduler_thread.is_alive()
ThreadAlive == sc_thread # 0 /\ sc_tpc[sc_thread] # "exit"

\* The threads that are in the loop of _run_scheduler
LoopThreads == {t \in 1..Len(sc_tpc) : sc_tpc[t] # "exit"}

\* Lines 51-75: configure(enabled, schedule_expression, dry_run_only), up
\* to its return or, when it disables a scheduler that was enabled, up to
\* the join of _stop_scheduler_thread
ScConfigure ==
  /\ sc_api = "idle" /\ sc_calls < MaxApiCalls
  /\ sc_calls' = sc_calls + 1
  /\ \E enabled \in BOOLEAN, schedule_expression \in ScExpressions,
        dry_run_only \in DryRunValues, month_days \in MonthLengths :
       LET was_enabled == sc_enabled
           setup == SetupSchedule(schedule_expression.s, sc_next_run, month_days)
       IN /\ sc_enabled' = enabled
          /\ sc_expr' = schedule_expression
          /\ sc_dry_run' = dry_run_only
          /\ IF enabled /\ ~Falsy(schedule_expression)
             THEN /\ sc_jobs' = setup.jobs
                  /\ sc_next_run' = setup.next_run
                  /\ sc_api' = "idle"
                  /\ IF ~was_enabled /\ ~ThreadAlive
                     THEN /\ sc_stop_event' = FALSE
                          /\ sc_tpc' = Append(sc_tpc, "test")
                          /\ sc_thread' = Len(sc_tpc) + 1
                     ELSE UNCHANGED <<sc_stop_event, sc_tpc, sc_thread>>
             ELSE IF ~enabled /\ was_enabled
             THEN /\ sc_jobs' = <<>>
                  /\ sc_stop_event' = TRUE
                  /\ sc_api' = "join"
                  /\ UNCHANGED <<sc_next_run, sc_tpc, sc_thread>>
             ELSE /\ sc_jobs' = <<>>
                  /\ UNCHANGED <<sc_next_run, sc_stop_event, sc_tpc, sc_thread,
                                 sc_api>>
  /\ UNCHANGED <<sc_callback, sc_last_run, sc_run_count, sc_queue, sc_invoked>>
  /\ UNCHANGED <<rvars, cvars, pvars, evars, lvars>>

\* Lines 251-254 and 237: stop(), up to the join
ScStop ==
  /\ sc_api = "idle" /\ sc_calls < MaxApiCalls
  /\ sc_calls' = sc_calls + 1
  /\ sc_enabled' = FALSE
  /\ sc_stop_event' = TRUE
  /\ sc_api' = "join"
  /\ UNCHANGED <<sc_expr, sc_dry_run, sc_callback, sc_jobs, sc_next_run,
                 sc_last_run, sc_run_count, sc_thread, sc_tpc, sc_queue,
                 sc_invoked>>
  /\ UNCHANGED <<rvars, cvars, pvars, evars, lvars>>

\* Lines 238-243, the join over (there was no thread, or it has left its
\* loop): the rest of _stop_scheduler_thread, and the request returns
ScJoin ==
  /\ sc_api = "join" /\ ~ThreadAlive
  /\ sc_thread' = 0 /\ sc_jobs' = <<>> /\ sc_next_run' = None
  /\ sc_api' = "idle"
  /\ UNCHANGED <<sc_enabled, sc_expr, sc_dry_run, sc_callback, sc_last_run,
                 sc_run_count, sc_stop_event, sc_tpc, sc_calls, sc_queue,
                 sc_invoked>>
  /\ UNCHANGED <<rvars, cvars, pvars, evars, lvars>>

\* Lines 239-243, join(timeout=5) gives up: the thread is still inside
\* schedule.run_pending() when the five seconds are over
ScJoinTimeout ==
  /\ sc_api = "join" /\ ThreadAlive /\ sc_tpc[sc_thread] = "pending"
  /\ sc_thread' = 0 /\ sc_jobs' = <<>> /\ sc_next_run' = None
  /\ sc_api' = "idle"
  /\ UNCHANGED <<sc_enabled, sc_expr, sc_dry_run, sc_callback, sc_last_run,
                 sc_run_count, sc_stop_event, sc_tpc, sc_calls, sc_queue,
                 sc_invoked>>
  /\ UNCHANGED <<rvars, cvars, pvars, evars, lvars>>

\* Line 247: the test of the loop of _run_scheduler
ScLoopTest ==
  \E t \in 1..Len(sc_tpc) :
    /\ sc_tpc[t] = "test"
    /\ sc_tpc' = [sc_tpc EXCEPT ![t] = IF sc_stop_event THEN "exit" ELSE "pending"]
    /\ UNCHANGED <<sc_enabled, sc_expr, sc_dry_run, sc_callback, sc_jobs,
                   sc_next_run, sc_last_run, sc_run_count, sc_thread,
                   sc_stop_event, sc_api, sc_calls, sc_queue, sc_invoked>>
    /\ UNCHANGED <<rvars, cvars, pvars, evars, lvars>>

\* Line 248: schedule.run_pending() runs the job that is due. Lines
\* 138-156 and 170-174: _trigger_run counts the run, queues _execute_run on
\* the event loop and takes the next run time of the job list. A monthly
\* job triggers only on its day (line 117).
ScRunPending ==
  \E t \in 1..Len(sc_tpc) :
    /\ sc_tpc[t] = "pending"
    /\ sc_tpc' = [sc_tpc EXCEPT ![t] = "wait"]
    /\ IF sc_jobs # <<>> /\ sc_jobs[1].due
       THEN /\ sc_jobs' = <<[sc_jobs[1] EXCEPT !.due = FALSE]>>
            /\ \E today \in (IF sc_jobs[1].monthly THEN BOOLEAN ELSE {TRUE}) :
                 IF today /\ sc_callback
                 THEN /\ sc_last_run' = TRUE
                      /\ sc_run_count' = sc_run_count + 1
                      /\ sc_queue' = sc_queue + 1
                      /\ sc_next_run' = NextRunOf(sc_jobs[1].of)
                 ELSE UNCHANGED <<sc_last_run, sc_run_count, sc_queue, sc_next_run>>
       ELSE UNCHANGED <<sc_jobs, sc_last_run, sc_run_count, sc_queue, sc_next_run>>
    /\ UNCHANGED <<sc_enabled, sc_expr, sc_dry_run, sc_callback, sc_thread,
                   sc_stop_event, sc_api, sc_calls, sc_invoked>>
    /\ UNCHANGED <<rvars, cvars, pvars, evars, lvars>>

\* Line 249: the wait ends, by the event or by its timeout
ScWait ==
  \E t \in 1..Len(sc_tpc) :
    /\ sc_tpc[t] = "wait"
    /\ sc_tpc' = [sc_tpc EXCEPT ![t] = "test"]
    /\ UNCHANGED <<sc_enabled, sc_expr, sc_dry_run, sc_callback, sc_jobs,
                   sc_next_run, sc_last_run, sc_run_count, sc_thread,
                   sc_stop_event, sc_api, sc_calls, sc_queue, sc_invoked>>
    /\ UNCHANGED <<rvars, cvars, pvars, evars, lvars>>

\* Time passes: the registered job comes due
ScDue ==
  /\ sc_jobs # <<>> /\ ~sc_jobs[1].due /\ sc_run_count < MaxRuns
  /\ sc_jobs' = <<[sc_jobs[1] EXCEPT !.due = TRUE]>>
  /\ UNCHANGED <<sc_enabled, sc_expr, sc_dry_run, sc_callback, sc_next_run,
                 sc_last_run, sc_run_count, sc_thread, sc_stop_event, sc_tpc,
                 sc_api, sc_calls, sc_queue, sc_invoked>>
  /\ UNCHANGED <<rvars, cvars, pvars, evars, lvars>>

\* Lines 158-168: the event loop, free of a request, runs a queued
\* _execute_run, which calls the run callback
ScExecute ==
  /\ sc_api = "idle" /\ sc_queue > 0
  /\ sc_queue' = sc_queue - 1
  /\ sc_invoked' = sc_invoked + 1
  /\ UNCHANGED <<sc_enabled, sc_expr, sc_dry_run, sc_callback, sc_jobs,
                 sc_next_run, sc_last_run, sc_run_count, sc_thread,
                 sc_stop_event, sc_tpc, sc_api, sc_calls>>
  /\ UNCHANGED <<rvars, cvars, pvars, evars, lvars>>

ScNext ==
  \/ ScConfigure \/ ScStop \/ ScJoin \/ ScJoinTimeout \/ ScDue \/ ScExecute
  \/ ScLoopTest \/ ScRunPending \/ ScWait

\* ------------------------------------------------------ specifications

\* resolve_variable alone: every value with every environment
SpecResolve == RvInit /\ [][RvNext]_vars

\* evaluate_conditionals alone: every conditional with every environment
SpecCond == CdInit /\ [][CdNext]_vars

\* process_template alone: every template with every caller's variables
SpecProcess == PtInit /\ [][PtNext]_vars

\* The loader and the expander over the overlay files; process_template
\* runs, step by step, for every template call of an entry
SpecExpand == ExInit /\ [][ExNext]_vars

\* load_templates called by several threads on one TemplateProcessor
SpecLoad == LdInit /\ [][LdNext]_vars

\* The scheduler under configure and stop requests, with its loop threads
\* and the event loop
SpecSched == ScInit /\ [][ScNext]_vars

\* ------------------------------------------------ claims: the resolver

\* A name the placeholder pattern can match: not empty, without < and >
IsIdent(name) == name # <<>> /\ \A j \in 1..Len(name) : name[j] \notin {LT, GT}

\* env maps name to a value other than null
Bound(env, name) ==
  \E j \in 1..Len(env) : env[j].k = name /\ env[j].v.t # "none"

\* No string of v holds a placeholder whose name env maps to a non-null value
RECURSIVE Settled(_, _)
Settled(v, env) ==
  CASE v.t = "str" ->
         LET ms == Matches(v.s) IN \A j \in 1..Len(ms) : ~Bound(env, ms[j])
    [] v.t = "dict" -> \A j \in 1..Len(v.kv) : Settled(v.kv[j].v, env)
    [] v.t = "list" -> \A j \in 1..Len(v.items) : Settled(v.items[j], env)
    [] OTHER -> TRUE

\* C1 (as claimed): the passes of resolve_variable that scan and substitute
\* number at most max_depth, for every value and every environment, cyclic
\* ones included.
C1_RoundsWithinMaxDepth == rv_rounds <= MaxDepthDefault

\* C6: when the whole string is exactly one placeholder <<x>> and env[x] is
\* not null, the call returns env[x] itself, with its type.
C6_TypePreserved ==
  \A j \in 1..Len(rv_env) :
    ( /\ rv_value = Str(Placeholder(rv_env[j].k))
      /\ IsIdent(rv_env[j].k)
      /\ rv_env[j].v # None )
    => /\ rv_rounds = 0
       /\ rv_pc = "done" => rv_ret = rv_env[j].v

C6_Witness ==
  /\ rv_pc = "done" /\ rv_run = 1
  /\ rv_value = Str(Placeholder(nA))
  /\ Bound(rv_env, nA)
  /\ Get(rv_env, nA).t \in {"list", "dict"}
  /\ rv_ret = Get(rv_env, nA)

\* C7: for the string <<A<<i>>B>>, env[i] a string v and A v B an
\* identifier that env maps to a non-null value, the call returns
\* env[A v B], after at most max_depth substituting passes.
C7_NestedConverges ==
  \A A \in Frags, B \in Frags, j \in 1..Len(rv_env) :
    LET i == rv_env[j].k
        v == rv_env[j].v
    IN ( /\ rv_value = Str(Nested(A, i, B))
         /\ IsIdent(i)
         /\ IsStr(v)
         /\ IsIdent(A \o v.s \o B)
         /\ Bound(rv_env, A \o v.s \o B) )
       => /\ rv_rounds <= MaxDepthDefault
          /\ rv_pc = "done" => rv_ret = Get(rv_env, A \o v.s \o B)

C7_Witness ==
  /\ rv_pc = "done" /\ rv_run = 1
  /\ rv_value = Str(Nested(<<"r">>, nI, <<"f">>))
  /\ GetOrNone(rv_env, nI) = Str(sOne)
  /\ rv_rounds = 1
  /\ rv_ret = Str(sArial)

\* C8 (as claimed): resolving the result of a call again, with the same
\* variables, returns it unchanged.
C8_Idempotent == (rv_pc = "done" /\ rv_run = 2) => rv_ret = rv_first

\* C8 (amended): resolving the result again returns it unchanged whenever
\* the result holds no placeholder that the variables resolve.
C8_IdempotentOnceSettled ==
  (rv_run = 2 /\ Settled(rv_first, rv_env))
  => /\ rv_pc # "hang"
     /\ rv_rounds = 0
     /\ rv_pc = "done" => rv_ret = rv_first

C8_Witness ==
  /\ rv_pc = "done" /\ rv_run = 2
  /\ rv_first = Str(<<"p", "1", " ">> \o Placeholder(nX))
  /\ rv_ret = rv_first

\* C9: every placeholder of the string whose name is absent from env or
\* mapped to null is in the output as it was, and no placeholder that env
\* resolves is left beside it.
C9_UnresolvableKept ==
  (rv_pc = "done" /\ IsStr(rv_value))
  => LET ms == Matches(rv_value.s)
     IN \A j \in 1..Len(ms) :
          ~Bound(rv_env, ms[j])
          => /\ IsStr(rv_ret)
             /\ Contains(rv_ret.s, Placeholder(ms[j]))
             /\ Settled(rv_ret, rv_env)

C9_Witness ==
  /\ rv_pc = "done" /\ rv_run = 1
  /\ rv_value = Str(<<"p">> \o Placeholder(nA) \o <<" ">> \o Placeholder(nX))
  /\ rv_ret = Str(<<"p", "1", " ">> \o Placeholder(nX))

\* ----------------------------------------------- claims: conditionals

\* No string of v, at any depth, holds "<<"
RECURSIVE Closed(_)
Closed(v) ==
  CASE v.t = "str" -> ~Contains(v.s, <<LT, LT>>)
    [] v.t = "dict" -> \A j \in 1..Len(v.kv) : Closed(v.kv[j].v)
    [] v.t = "list" -> \A j \in 1..Len(v.items) : Closed(v.items[j])
    [] OTHER -> TRUE

\* All the checks of a clause pass
ClauseMet(clause, env) ==
  /\ IsDict(clause)
  /\ \A j \in 1..Len(clause.kv) :
       clause.kv[j].k = sValue \/ CheckPasses(clause.kv[j].k, clause.kv[j].v, env)

\* The value a conditional stands for: that of the first clause met in
\* declared order, the default when no clause is met
FirstMatch(cond_def, env) ==
  LET cs == ConditionsOf(cond_def)
      met == {j \in 1..Len(cs) : ClauseMet(cs[j], env)}
  IN IF met = {} THEN GetOrNone(cond_def.kv, sDefault)
     ELSE GetOrNone(cs[CHOOSE j \in met : \A k \in met : j <= k].kv, sValue)

\* C10: conditional evaluation is first-match. Once evaluate_conditionals
\* has returned, the result of every conditional is the (resolved) value of
\* the first clause, in declared order, all of whose checks pass, whatever
\* later clauses would give, and the (resolved) default when no clause
\* passes.
C10_FirstMatch ==
  cd_pc = "done" =>
    \A j \in 1..Len(cd_conds) :
      IsDict(cd_conds[j].v) =>
        /\ Has(cd_results, cd_conds[j].k)
        /\ Get(cd_results, cd_conds[j].k)
             = Resolve(FirstMatch(cd_conds[j].v, cd_env), cd_env)

\* Two clauses are met, they give different values, and the result is the
\* first one's.
C10_Witness ==
  /\ cd_pc = "done"
  /\ LET cs == ConditionsOf(cd_conds[1].v)
     IN /\ Len(cs) = 2
        /\ ClauseMet(cs[1], cd_env) /\ ClauseMet(cs[2], cd_env)
        /\ GetOrNone(cs[1].kv, sValue) # GetOrNone(cs[2].kv, sValue)
        /\ Get(cd_results, nC) = GetOrNone(cs[1].kv, sValue)

\* The conditionals made of a default and one clause, which holds one check
\* with the given suffix and a value other than the default: the result
\* tells whether the check passed.
OneCheck(suffix) ==
  {j \in 1..Len(cd_conds) :
     /\ IsDict(cd_conds[j].v)
     /\ LET cs == ConditionsOf(cd_conds[j].v)
        IN /\ Len(cs) = 1 /\ IsDict(cs[1]) /\ Len(cs[1].kv) = 2
           /\ EndsWith(cs[1].kv[1].k, suffix)
           /\ ~Contains(cs[1].kv[1].k, <<LT, LT>>)
           /\ cs[1].kv[2].k = sValue
           /\ Closed(cs[1].kv[2].v)
           /\ cs[1].kv[2].v # GetOrNone(cd_conds[j].v.kv, sDefault)}

\* The check of such a conditional: the variable it names, the value it
\* expects, and whether the clause was taken
CheckedName(j, suffix) ==
  LET k == ConditionsOf(cd_conds[j].v)[1].kv[1].k
  IN SubSeq(k, 1, Len(k) - Len(suffix))

CheckedValue(j) == ConditionsOf(cd_conds[j].v)[1].kv[1].v

ClauseTaken(j) ==
  Get(cd_results, cd_conds[j].k) = ConditionsOf(cd_conds[j].v)[1].kv[2].v

\* A variable exists: it is in env, not null and, when a string, holds no
\* `<<...>>` placeholder
VarExists(env, name) ==
  /\ Has(env, name)
  /\ Get(env, name) # None
  /\ IsStr(Get(env, name)) => Matches(Get(env, name).s) = <<>>

\* C11: an `.exists` check passes iff whether the variable exists (it is in
\* env, not null, and no string with an unresolved placeholder) is what
\* the check expects: `x.exists: true` passes for an existing variable
\* and `x.exists: false` for any other.
C11_ExistsCheck ==
  cd_pc = "done" =>
    \A j \in OneCheck(sExists) :
      CheckedValue(j).t = "bool" =>
        (ClauseTaken(j) <=> (VarExists(cd_env, CheckedName(j, sExists))
                             = CheckedValue(j).b))

\* C12: a `.not` check that expects a sequence fails when the variable's
\* value is a member of the sequence, and passes when it is not or when
\* the variable is not in env.
C12_NotCheckOnSequence ==
  cd_pc = "done" =>
    \A j \in OneCheck(sNot) :
      IsList(CheckedValue(j)) =>
        LET name == CheckedName(j, sNot)
            member == /\ Has(cd_env, name)
                      /\ \E m \in 1..Len(CheckedValue(j).items) :
                           CheckedValue(j).items[m] = Get(cd_env, name)
        IN ClauseTaken(j) <=> ~member

\* A `.not` check on a sequence has failed for a member (the result is the
\* default) in one run and passed for an absent variable in another.
C12_Witness ==
  /\ cd_pc = "done"
  /\ \E j \in OneCheck(sNot) :
       /\ IsList(CheckedValue(j))
       /\ Has(cd_env, CheckedName(j, sNot))
       /\ ~ClauseTaken(j)
       /\ Get(cd_results, cd_conds[j].k) = Str(nD)

\* What evaluate_conditionals gives the j-th conditional when it is the
\* only one of the call
Alone(j) == EvaluateConditionals(SubSeq(cd_conds, j, j), cd_env)

\* C26: every conditional of a call is evaluated against the variables as
\* passed in. The result of a conditional is the one it has when
\* evaluated alone against them, so no result of another conditional of
\* the call reaches its checks or the resolution of its value; and the
\* call leaves the variables passed in as they were.
C26_ConditionalsIndependent ==
  /\ [](cd_pc = "done" =>
          \A j \in 1..Len(cd_conds) :
            IsDict(cd_conds[j].v) =>
              \A name \in Keys(Alone(j)) :
                Has(cd_results, name) /\ Get(cd_results, name) = Get(Alone(j), name))
  /\ [][cd_env' = cd_env]_vars

\* The second conditional asks for the variable the first is named after;
\* the first has a result, and with that result among the variables the
\* second would have another result than it has.
C26_Witness ==
  /\ cd_pc = "done"
  /\ IsDict(cd_conds[2].v)
  /\ Has(cd_results, nC) /\ Has(cd_results, nD)
  /\ Get(cd_results, nD)
       # Get(EvaluateConditionals(SubSeq(cd_conds, 2, 2),
                                 Update(cd_env, Alone(1))), nD)

\* -------------------------------------------- claims: process_template

\* The names the conditionals of a template give a value to
ConditionalNames(template_def) ==
  LET c == GetOrNone(template_def, sConditionals)
  IN IF IsDict(c) THEN Keys(c.kv) ELSE {}

\* The caller's variables no stage but a default merge could change: all
\* but `key` (set from the key argument) and the names of the template's
\* conditionals, when the name and the value hold no placeholder left to
\* resolve and the value is not null.
CallerNames(user_variables, template_def) ==
  {n \in Keys(user_variables) \ ({sKey} \cup ConditionalNames(template_def)) :
     /\ ~Contains(n, <<LT, LT>>)
     /\ Get(user_variables, n) # None
     /\ Closed(Get(user_variables, n))}

\* C4: in process, a variable the caller supplies is never replaced by a
\* template default. From the first default merge on, through the
\* fixed-point passes and the second default merge, every such variable is
\* in the environment with the caller's value.
C4_CallerWinsOverDefaults ==
  pt_pc \in {"pass1", "conditionals", "redefaults", "pass2", "overlay", "done"} =>
    \A n \in CallerNames(pt_user, pt_def) :
      Has(pt_vars, n) /\ Get(pt_vars, n) = Get(pt_user, n)

\* C23: process seeds `key` only when the caller gave none. In the final
\* environment `key` holds the caller's value when the caller's variables
\* have one, whatever the key argument, and the key argument otherwise.
C23_KeySeededUnlessSupplied ==
  pt_pc \in {"overlay", "done"} =>
    /\ Has(pt_vars, sKey)
    /\ Get(pt_vars, sKey) = IF Has(pt_user, sKey) THEN Get(pt_user, sKey) ELSE pt_key

\* A pass of the second fixed-point loop is taken
SecondPassing == pt_pc = "pass2" /\ pt_n' = pt_n - 1

\* C24: the fixed-point passes after the conditionals are those before
\* them. A pass of the second loop leaves the variables one pass of the
\* first loop would leave: every value that holds a placeholder is
\* resolved again and every key that holds one is resolved again, the
\* variables being re-keyed.
C24_SecondPassesAsFirst ==
  [][SecondPassing => DictEq(pt_vars', FirstPass(pt_vars))]_vars

\* A pass of the first fixed-point loop is taken
FirstPassing == pt_pc = "pass1" /\ pt_n' = pt_n - 1

\* The keys of the variables that hold a placeholder the pass cannot
\* resolve: resolved against the variables of the pass, the key is itself
UnresolvedKeys(variables) ==
  LET after == ValuesPass(variables, 1, variables)
  IN {vk \in Keys(variables) :
        Contains(vk, <<LT, LT>>) /\ ResolveKey(vk, after) = vk}

\* C25: the re-keying of a fixed-point pass loses no variable. A variable
\* whose key holds a placeholder that cannot be resolved yet is in the
\* variables, under its own key, after the pass.
C25_UnresolvedKeyKept ==
  [][FirstPassing => \A vk \in UnresolvedKeys(pt_vars) : Has(pt_vars', vk)]_vars

\* ------------------------------------- claims: the loader and the expander

\* C2: no exception escapes the loader or the expander, whatever the file
\* is: load_templates returns a mapping, expand_overlay_file returns a
\* sequence, and the empty one for a missing or unparsable file.
C2_NoExceptionEscapes ==
  /\ ex_pc # "raised"
  /\ ex_loaded.called => ~ex_loaded.exc /\ IsDict(ex_loaded.ret)
  /\ (ex_pc = "done" /\ ex_file \in {Missing, Bad}) => ex_out = <<>>

\* C3: no field of an overlay expand_overlay_file returns, other than
\* `name`, holds an unresolved placeholder, in a template entry or a direct
\* one, at any depth of the field's value.
C3_NoOpenFields ==
  ex_pc = "done" =>
    \A j \in 1..Len(ex_out) :
      \A f \in 1..Len(ex_out[j]) :
        ex_out[j][f].k # sName => Closed(ex_out[j][f].v)

\* The names of a mapping-valued section of an entry or a call
NamesIn(section) == IF IsDict(section) THEN Keys(section.kv) ELSE {}

\* The user's variables that nothing with a say over them overrides for
\* the call being processed: not set by the entry's `variables` or
\* `template_variables` nor at the call site, not rewritten by the rating
\* shorthand, with no placeholder left to resolve in name or value, and
\* not null.
UserNames ==
  {n \in Keys(ex_user) :
     /\ ~Contains(n, <<LT, LT>>)
     /\ Get(ex_user, n) # None
     /\ Closed(Get(ex_user, n))
     /\ GetOrNone(PreprocessTemplateVariables(ex_user), n) = Get(ex_user, n)
     /\ n \notin NamesIn(GetOrNone(ExDef.kv, sVariables))
     /\ n \notin NamesIn(GetOrNone(ExDef.kv, sTemplateVariables))
     /\ n \notin Keys(CallVars(ex_call))}

\* C5: the user's variables are the highest-precedence source. When
\* process_template comes to resolve the overlay of a template call, every
\* such variable has the user's value: no external template variable,
\* template default or conditional result has replaced it.
C5_UserVariablesWin ==
  (ex_pc = "process" /\ pt_pc \in {"overlay", "done"}) =>
    \A n \in UserNames : Has(pt_vars, n) /\ Get(pt_vars, n) = Get(ex_user, n)

\* The `templates` section of the overlay file, and the templates of the
\* library its `external_templates` section names
LocalOf(file) ==
  LET t == GetOrNone(file.data.kv, sTemplates) IN IF IsDict(t) THEN t.kv ELSE <<>>

LibraryOf(file, fs) ==
  LET ext == GetOrNone(file.data.kv, sExternalTemplates)
      lib == IF IsDict(ext)
             THEN LoadTemplates(<<>>, fs, GetOr(ext.kv, sDefault, Str(sTemplates))).ret
             ELSE EmptyDict
  IN IF IsDict(lib) THEN lib.kv ELSE <<>>

\* The definition process_template is given: the first element of a list,
\* with the `conditionals` left aside (external ones may be merged in)
Unwrapped(template_value) ==
  IF IsList(template_value) /\ template_value.items # <<>>
  THEN template_value.items[1] ELSE template_value

SameButConditionals(template_def, template_value) ==
  LET given == Unwrapped(template_value)
      plain(kv) == SelectSeq(kv, LAMBDA e : e.k # sConditionals)
  IN plain(template_def) = (IF IsDict(given) THEN plain(given.kv) ELSE <<>>)

\* C13: local templates override external ones. Whenever a template call
\* is processed, the definition used is the local one if the file's
\* `templates` section defines the name, and the library's only if it does
\* not.
C13_LocalTemplatesWin ==
  ex_pc = "process" =>
    LET name == KeyOf(CallName(ex_call))
        local == LocalOf(ex_file)
        library == LibraryOf(ex_file, ex_fs)
    IN /\ Has(local, name) => SameButConditionals(pt_def, Get(local, name))
       /\ ~Has(local, name) =>
            Has(library, name) /\ SameButConditionals(pt_def, Get(library, name))

\* A call of a name that the file and the library define differently is
\* processed with the file's definition.
C13_Witness ==
  /\ ex_pc = "process"
  /\ LET name == KeyOf(CallName(ex_call))
     IN /\ Has(LocalOf(ex_file), name) /\ Has(LibraryOf(ex_file, ex_fs), name)
        /\ ~SameButConditionals(pt_def, Get(LibraryOf(ex_file, ex_fs), name))
        /\ SameButConditionals(pt_def, Get(LocalOf(ex_file), name))

\* The called template's own conditionals
OwnConditionals ==
  LET given == Unwrapped(Get(ex_setup.templates, KeyOf(CallName(ex_call))))
      own == IF IsDict(given) THEN GetOrNone(given.kv, sConditionals) ELSE None
  IN IF IsDict(own) THEN own.kv ELSE <<>>

\* C14: external conditionals are only fallbacks. The conditionals a
\* template call is processed with give every name the template's own
\* conditionals define the template's definition, and an external
\* definition only to a name the template does not define.
C14_OwnConditionalsWin ==
  ex_pc = "process" =>
    LET used == GetOrNone(pt_def, sConditionals)
    IN \A c \in Keys(OwnConditionals) \cup Keys(ex_setup.conditionals) :
         /\ IsDict(used) /\ Has(used.kv, c)
         /\ Get(used.kv, c) = IF Has(OwnConditionals, c)
                              THEN Get(OwnConditionals, c)
                              ELSE Get(ex_setup.conditionals, c)

\* A name has an external conditional and one of the template's own, they
\* differ, and the template's has been evaluated into the variables.
C14_Witness ==
  /\ ex_pc = "process" /\ pt_pc = "redefaults"
  /\ \E c \in Keys(OwnConditionals) \cap Keys(ex_setup.conditionals) :
       /\ Get(OwnConditionals, c) # Get(ex_setup.conditionals, c)
       /\ Get(pt_vars, c) = GetOrNone(Get(OwnConditionals, c).kv, sDefault)
       /\ Get(pt_vars, c) # GetOrNone(Get(ex_setup.conditionals, c).kv, sDefault)

\* A step that merges a call's resolved result into the entry's overlay
Merging == ex_pc = "process" /\ ex_pc' = "call"

\* A step that appends the entry's merged overlay to the output
Appending == ex_pc = "call" /\ Len(ex_out') = Len(ex_out) + 1

\* A key the merge of line 504 lets through
Visible(k) == ~(k # <<>> /\ k[1] = "_")

\* The merged overlay is handed to the output as it is
MergedKept ==
  Appending => \A k \in Keys(ex_merged) :
                 GetOrNone(ex_out'[Len(ex_out')], k) = Get(ex_merged, k)

\* C15 as stated, for every key of a call's resolved result: after the
\* merge the entry holds the later call's value for each key the call
\* resolved, and keeps the keys only earlier calls set. It fails on a key
\* that starts with an underscore, which line 504 never merges.
C15_LaterCallWinsAnyKey ==
  [][/\ Merging =>
          \A k \in Keys(pt_out) \cup Keys(ex_merged) :
             GetOrNone(ex_merged', k) = IF Has(pt_out, k) THEN Get(pt_out, k)
                                        ELSE Get(ex_merged, k)
     /\ MergedKept]_vars

\* C15: with several template calls on one entry, for every key that does
\* not start with an underscore, the entry holds the later call's resolved
\* value when an earlier and a later call both resolved it, and keeps the
\* value of a key only an earlier call resolved.
C15_LaterCallWins ==
  [][/\ Merging =>
          \A k \in Keys(pt_out) \cup Keys(ex_merged) :
             Visible(k) =>
               GetOrNone(ex_merged', k) = IF Has(pt_out, k) THEN Get(pt_out, k)
                                          ELSE Get(ex_merged, k)
     /\ MergedKept]_vars

\* A later call has resolved a key an earlier call merged, to another
\* value, and does not resolve another key the earlier call merged.
C15_Witness ==
  /\ ex_pc = "process" /\ pt_pc = "done" /\ ex_c > 1
  /\ \E k \in Keys(pt_out) \cap Keys(ex_merged) :
       Visible(k) /\ Get(pt_out, k) # Get(ex_merged, k)
  /\ \E k \in Keys(ex_merged) \ Keys(pt_out) : Visible(k)

\* The calls of the current entry that name a template there is: the ones
\* lines 468-479 do not skip
UsedCalls ==
  SelectSeq(ExCalls, LAMBDA tmpl_call :
    /\ IsCall(tmpl_call) /\ ~Unhashable(CallName(tmpl_call))
    /\ Has(ex_setup.templates, KeyOf(CallName(tmpl_call))))

\* C16: the element a template entry appends carries the declared overlay
\* name as `_original_name`, and as `_template` the comma-joined names of
\* the templates actually used: a call that was skipped because its name
\* is no template does not appear in it.
C16_TemplateNamesUsed ==
  [][Appending =>
       LET element == ex_out'[Len(ex_out')]
       IN /\ GetOrNone(element, sOriginalName) = Str(ExName)
          /\ GetOrNone(element, sUnderTemplate) = Str(JoinLabels(UsedCalls, 1))]_vars

\* A step that appends the element of a direct entry
AppendingDirect == ex_pc = "entry" /\ Len(ex_out') = Len(ex_out) + 1

\* The element is the entry's `overlay` block with every value substituted
\* against env, the null results dropped, and the two labels
PlainSubstitution(element, overlay_config, env, overlay_name) ==
  /\ Keys(element) \subseteq Keys(overlay_config) \cup {sOriginalName, sDirect}
  /\ Get(element, sOriginalName) = Str(overlay_name)
  /\ Get(element, sDirect) = Bool(TRUE)
  /\ \A k \in Keys(overlay_config) \ {sOriginalName, sDirect} :
       LET value == Resolve(Get(overlay_config, k), env)
       IN IF value = None THEN ~Has(element, k)
          ELSE GetOrNone(element, k) = value

\* The variables of the file's `external_templates.template_variables`:
\* its scalar entries and the entries of its `default` block
FileVariables ==
  LET ext_tmpl == GetOrNone(ex_file.data.kv, sExternalTemplates)
  IN IF IsDict(ext_tmpl) THEN ExtractExternalTemplateVars(ext_tmpl.kv).variables
     ELSE <<>>

ShorthandNames ==
  {name \in {sRating \o <<"1">>, sRating \o <<"2">>, sRating \o <<"3">>} :
     /\ Has(ex_user, name) /\ IsStr(Get(ex_user, name))
     /\ Contains(Get(ex_user, name).s, sSep)}

\* The text before and after the first " / " of a shorthand value
TypePart(name) ==
  LET value == Get(ex_user, name).s
  IN SubSeq(value, 1, FirstAt(value, sSep) - 1)

ImagePart(name) ==
  LET value == Get(ex_user, name).s
  IN SubSeq(value, FirstAt(value, sSep) + Len(sSep), Len(value))

\* The variables the entries are resolved with are the preprocessed user
\* variables: the loop has begun and the file adds no external variable
Preprocessed == ex_setup.kind = "go" /\ FileVariables = <<>>

\* Every variable that is neither a shorthand nor the image of one is
\* passed through, and nothing else is added
OthersUnchanged ==
  LET images == {name \o sImage : name \in ShorthandNames}
  IN /\ Keys(ex_setup.user_vars) = Keys(ex_user) \cup images
     /\ \A k \in Keys(ex_user) \ (ShorthandNames \cup images) :
          Get(ex_setup.user_vars, k) = Get(ex_user, k)

\* C18 as stated: ratingN and ratingN_image are the two sides of the first
\* " / " as they stand. It fails when a side has blanks around it, which
\* line 337 strips.
C18_ShorthandSplit ==
  Preprocessed =>
    /\ \A name \in ShorthandNames :
         /\ Get(ex_setup.user_vars, name) = Str(TypePart(name))
         /\ Get(ex_setup.user_vars, name \o sImage) = Str(ImagePart(name))
    /\ OthersUnchanged

\* C18: for N in 1..3, a string ratingN with " / " in it is split at the
\* first " / "; ratingN becomes the text before it and ratingN_image the
\* text after it, each stripped of the blanks around it; every other
\* variable (rating4, a ratingN that is no string) is passed through.
C18_ShorthandSplitStripped ==
  Preprocessed =>
    /\ \A name \in ShorthandNames :
         /\ Get(ex_setup.user_vars, name) = Str(Strip(TypePart(name)))
         /\ Get(ex_setup.user_vars, name \o sImage) = Str(Strip(ImagePart(name)))
    /\ OthersUnchanged

\* A shorthand with two separators and blanks around its sides has been
\* expanded, beside a rating4 of the same form and a ratingN that is no
\* string.
C18_Witness ==
  /\ Preprocessed
  /\ \E name \in ShorthandNames :
       /\ Contains(ImagePart(name), sSep)
       /\ Strip(TypePart(name)) # TypePart(name)
       /\ Get(ex_setup.user_vars, name) = Str(Strip(TypePart(name)))
  /\ \E k \in Keys(ex_user) \ ShorthandNames :
       IsStr(Get(ex_user, k)) /\ Contains(Get(ex_user, k).s, sSep)
  /\ \E name \in {sRating \o <<"3">>} :
       Has(ex_user, name) /\ ~IsStr(Get(ex_user, name))

\* A step that is a call of load_templates
Loading == ex_loaded'.n = ex_loaded.n + 1

\* C19: a failed load is never cached. A call of load_templates that finds
\* the file of its source missing or unparsable returns the empty mapping
\* and leaves the cache without an entry for the source; and a call for a
\* source an earlier call failed on, made once a valid file is there,
\* returns the templates of that file.
C19_FailedLoadNotCached ==
  [][Loading =>
       LET source == ex_loaded'.source
           file == FileAt(ex_fs, PathOf(source))
       IN /\ (file.st # "ok" /\ ~Has(ex_cache, source)) =>
               /\ ~ex_loaded'.exc /\ ex_loaded'.ret = EmptyDict
               /\ ~Has(ex_cache', source)
          /\ (source \in ex_loaded.failed /\ file.st = "ok" /\ IsDict(file.data)) =>
               /\ ~ex_loaded'.exc
               /\ ex_loaded'.ret = GetOr(file.data.kv, sTemplates, EmptyDict)]_vars

\* A call has failed on a source, a valid file has appeared, and a later
\* call for the source has returned the templates of the file.
C19_Witness ==
  /\ ex_pc = "start" /\ ex_loaded.n > 1
  /\ ex_loaded.source \in ex_loaded.failed
  /\ FileAt(ex_fs, PathOf(ex_loaded.source)) = ValidLibrary
  /\ ex_loaded.ret = LibTemplates
  /\ Has(ex_cache, ex_loaded.source)

\* The place of a declared name in the `overlays` section
DeclaredAt(name) ==
  CHOOSE i \in 1..Len(ex_setup.overlays) : ex_setup.overlays[i].k = name

\* An entry that has a `template` or an `overlay` field
HasField(overlay_def) ==
  IsDict(overlay_def)
    /\ (Has(overlay_def.kv, sTemplate) \/ Has(overlay_def.kv, sOverlay))

\* C20: the output is in declaration order. The `_original_name` values of
\* the output name declared entries, at strictly growing places of the
\* `overlays` section (so each entry gives at most one element), and none
\* of them names an entry with neither a `template` nor an `overlay` field.
C20_DeclarationOrder ==
  ex_setup.kind = "go" =>
    /\ \A j \in 1..Len(ex_out) :
         LET name == GetOrNone(ex_out[j], sOriginalName)
         IN /\ IsStr(name) /\ Has(ex_setup.overlays, name.s)
            /\ HasField(ex_setup.overlays[DeclaredAt(name.s)].v)
    /\ \A j, h \in 1..Len(ex_out) :
         j < h => DeclaredAt(Get(ex_out[j], sOriginalName).s)
                    < DeclaredAt(Get(ex_out[h], sOriginalName).s)

\* The expansion has returned two elements, of a direct and of a template
\* entry, and an entry declared between the two has neither field.
C20_Witness ==
  /\ ex_pc = "done" /\ Len(ex_out) = 2
  /\ Has(ex_out[1], sDirect) /\ Has(ex_out[2], sUnderTemplate)
  /\ \E i \in 1..Len(ex_setup.overlays) :
       /\ ~HasField(ex_setup.overlays[i].v)
       /\ DeclaredAt(Get(ex_out[1], sOriginalName).s) < i
       /\ i < DeclaredAt(Get(ex_out[2], sOriginalName).s)

\* The bookkeeping of an element: the name of a declared entry, and
\* `_template` without `_direct`, or `_direct` = true without `_template`
Labelled(element) ==
  /\ Has(element, sOriginalName)
  /\ \E j \in 1..Len(ex_setup.overlays) :
       Get(element, sOriginalName) = Str(ex_setup.overlays[j].k)
  /\ \/ Has(element, sUnderTemplate) /\ ~Has(element, sDirect)
     \/ /\ ~Has(element, sUnderTemplate)
        /\ Has(element, sDirect) /\ Get(element, sDirect) = Bool(TRUE)

\* The calls of a template entry are over and merged no field
NothingMerged == ex_pc = "call" /\ ex_c > Len(ExCalls) /\ ex_merged = <<>>

\* C27: every element of the output carries as `_original_name` the name
\* of a declared entry and exactly one of `_template` and `_direct` =
\* true, never both and never neither; and a template entry whose calls
\* merged no field adds no element.
C27_ElementsLabelled ==
  /\ [](\A j \in 1..Len(ex_out) : Labelled(ex_out[j]))
  /\ [][NothingMerged => ex_out' = ex_out]_vars

\* ------------------------------------ claims: concurrent load_templates

\* What load_templates gives for a source when it runs alone
TemplatesOf(source) == LoadTemplates(<<>>, ld_fs, Str(source)).ret

\* C21: concurrent calls of load_templates do not corrupt each other.
\* Every cache entry is the templates mapping of its own source, and every
\* call that has returned gave the templates mapping of its source or the
\* empty mapping.
C21_ConcurrentLoads ==
  /\ \A source \in Keys(ld_cache) : Get(ld_cache, source) = TemplatesOf(source)
  /\ \A t \in DOMAIN ld_pc :
       ld_pc[t] = "done" => ld_ret[t] \in {EmptyDict, TemplatesOf(ld_src[t])}

\* ------------------------------------------------ claims: the scheduler

\* A request has returned: the scheduler is at rest between requests
AtRest == sc_api = "idle"

\* A schedule expression the scheduler supports: hourly, daily,
\* weekly(<day>), monthly(<N>) or hourly(<hour>), in any case and with
\* blanks around it
SupportedExpression(v) ==
  /\ IsStr(v)
  /\ LET e == Strip(LowerCase(v.s))
     IN \/ e \in {sHourly, sDaily}
        \/ /\ HasAt(e, 1, sWeeklyOpen)
           /\ GroupOf(e, sWeeklyOpen, FALSE) \in DayNames
        \/ /\ HasAt(e, 1, sMonthlyOpen)
           /\ GroupOf(e, sMonthlyOpen, TRUE) # <<>>
        \/ /\ HasAt(e, 1, sHourlyOpen)
           /\ GroupOf(e, sHourlyOpen, TRUE) # <<>>
           /\ IntOf(GroupOf(e, sHourlyOpen, TRUE)) <= LastHour

\* C22: once configure(enabled = true, a supported expression) has
\* returned, whatever requests came before, a job for that expression is
\* registered and the scheduler's loop thread is running (so that the job
\* is triggered when it is due).
C22_EnabledSchedulerRuns ==
  (AtRest /\ sc_enabled /\ SupportedExpression(sc_expr)) =>
    /\ sc_jobs # <<>>
    /\ sc_jobs[1].of = Strip(LowerCase(sc_expr.s))
    /\ ThreadAlive
    /\ ~sc_stop_event

\* C28: at most one thread is in the loop of _run_scheduler at any time.
C28_OneLoopThread == Cardinality(LoopThreads) <= 1

\* C29: a stopped scheduler starts no run. The run callback is not called
\* while the scheduler is disabled, that is after stop() or
\* configure(enabled = false) has returned and before it is enabled again.
C29_NoRunWhileStopped ==
  [][sc_invoked' = sc_invoked + 1 => sc_enabled]_vars

\* C30: the next_run of get_status belongs to the registered schedule.
\* Between requests, when no job is registered next_run is null, and
\* when one is, next_run is not that of another expression.
C30_NextRunOfRegisteredJob ==
  AtRest =>
    LET status == GetStatus(sc_enabled, sc_expr, sc_dry_run, sc_next_run,
                            sc_last_run, sc_run_count)
    IN /\ sc_jobs = <<>> => status.next_run = None
       /\ (sc_jobs # <<>> /\ status.next_run # None) =>
            status.next_run.of = sc_jobs[1].of

====
